---- MODULE Spec2Model ----
(***************************************************************************)
(* The workflow execution engine of the workflow store (useWorkflowStore): *)
(* the graph store, the dependency resolver inside executeWorkflow, the    *)
(* node executor, the job poller and the run controller.                   *)
(*                                                                         *)
(* JavaScript runs one callback at a time, so every action below is one    *)
(* uninterrupted stretch of code: from a call (or from the resolution of   *)
(* an awaited promise) to the next await or to the return.                 *)
(***************************************************************************)
EXTENDS Integers, Sequences, FiniteSets, TLC

VARIABLES
    nodes,              \* store.nodes: sequence of [id, type, data, groupId, selected]
    edges,              \* store.edges: sequence of [id, source, target, targetHandle, type, hasPause]
    isRunning,          \* store.isRunning
    currentNodeId,      \* store.currentNodeId
    pausedAtNodeId,     \* store.pausedAtNodeId
    globalImageHistory, \* store.globalImageHistory (newest first)
    acts,               \* the activations of executeWorkflow / regenerateNode, in call order
    lastCall,           \* the last call made on the store and whether its guard rejected it
    jobPending,         \* environment: how many polls of one job may pass without "done"
    mayFail,            \* environment: whether requests and image loads may fail
    callsLeft,          \* user: how many more run / regenerate calls are accepted
    togglesLeft,        \* user: how many more pause flags are toggled
    groups,             \* store.groups: group id -> [id, name]
    clipboard,          \* store.clipboard
    nodeIdCounter,      \* the module-level nodeIdCounter
    groupIdCounter,     \* the module-level groupIdCounter
    editsLeft,          \* user: how many more editing operations are called
    createdIds,         \* history: the ids addNode / pasteNodes assigned, in order
    restoredIds,        \* history: the node ids the latest loadWorkflow restored
    userEdits,          \* history: the updateNodeData calls the user made: [nodeId, data, executing, suspended]
    saves,              \* the fetch("/api/save-generation") calls of the activations in acts: [node, call, url, state]
    hasUnsavedChanges,  \* store.hasUnsavedChanges
    isSaving,           \* store.isSaving
    workflowId,         \* store.workflowId
    workflowName,       \* store.workflowName
    saveDirectoryPath,  \* store.saveDirectoryPath
    autoSaveEnabled,    \* store.autoSaveEnabled
    fileSaves,          \* the saveToFile calls suspended at fetch("/api/workflow"): [workflow, state]
    written,            \* environment: the workflow document the server wrote last
    ticksLeft           \* environment: how many more auto-save ticks fire

vars == <<nodes, edges, isRunning, currentNodeId, pausedAtNodeId,
          globalImageHistory, acts, lastCall, jobPending, mayFail, callsLeft,
          togglesLeft, groups, clipboard, nodeIdCounter, groupIdCounter,
          editsLeft, createdIds, restoredIds, userEdits, saves,
          hasUnsavedChanges, isSaving, workflowId, workflowName,
          saveDirectoryPath, autoSaveEnabled, fileSaves, written, ticksLeft>>

\* what only saveToFile, the auto-save timer, loadWorkflow and clearWorkflow
\* write
fileVars == <<isSaving, workflowId, workflowName, saveDirectoryPath,
              autoSaveEnabled, fileSaves, written, ticksLeft>>

\* what the run controller and the executor never write
editVars == <<groups, clipboard, nodeIdCounter, groupIdCounter, editsLeft,
              createdIds, restoredIds, fileVars>>

\* what the editing operations of the graph store never write
runVars == <<isRunning, currentNodeId, pausedAtNodeId, globalImageHistory, acts, saves,
             userEdits,
             jobPending, mayFail, callsLeft, togglesLeft, fileVars>>

----------------------------------------------------------------------------
(* Values *)

\* JavaScript null, and a field that is absent from a data record
Null == "null"
\* JavaScript undefined: the startFromNodeId of executeWorkflow()
Undefined == "undefined"

\* JavaScript truthiness of a string-or-null value
Truthy(v) == v # Null /\ v # Undefined /\ v # ""

\* a || b
OrElse(a, b) == IF Truthy(a) THEN a ELSE b

\* a ?? b
Coalesce(a, b) == IF a = Null \/ a = Undefined THEN b ELSE a

\* the poll loop's ceiling: while (attempts < 120)
MaxPollAttempts == 120

\* loadUniversalGeneratorDefaults().model
ImagenModel == <<"vertexai/", "imagen", "-3.0-generate-001">>

\* a model of the other provider
GeminiModel == <<"googleai/", "gemini-2.5-flash-image">>

\* model.includes(part)
Includes(model, part) == \E k \in 1..Len(model) : model[k] = part

\* JavaScript truthiness of an optional number
TruthyNumber(v) == v # <<>> /\ v[1] # 0

\* The fields of a node's data record. A field a node type does not have is Null
\* or, for the generator's options, Undefined. A model identifier is the
\* sequence of its parts, as in <<"vertexai/", "imagen", "-3.0-generate-001">>.
\* The number seed and the boolean addWatermark are <<>> when absent and
\* <<v>> when present.
AbsentData ==
    [image |-> Null, outputImage |-> Null, sourceImage |-> Null, output |-> Null,
     prompt |-> Null, status |-> Null, error |-> Null,
     inputImages |-> <<>>, inputPrompt |-> Null, operationId |-> Null,
     filename |-> Null, dimensions |-> Null,
     isConfigured |-> FALSE, childNodeIds |-> <<>>, gridRows |-> 0, gridCols |-> 0,
     model |-> <<>>, aspectRatio |-> Undefined, safetySetting |-> Undefined,
     upscaleFactor |-> Undefined, sampleImageSize |-> Undefined,
     seed |-> <<>>, addWatermark |-> <<>>,
     resolution |-> Undefined, useGoogleSearch |-> <<>>]

\* What array.find gives when no node passes: a node whose id is Undefined
NoNode ==
    [id |-> Undefined, type |-> Undefined, data |-> AbsentData,
     groupId |-> Undefined, selected |-> FALSE]

\* groups: {}
NoGroups == [g \in {} |-> [id |-> g, name |-> 0]]

\* no workflow document has been written yet
NoDocument == [isNull |-> TRUE, nodes |-> <<>>, edges |-> <<>>]

\* clipboard: null
NoClipboard == [isNull |-> TRUE, nodes |-> <<>>, edges |-> <<>>]

\* { ...a, ...b }
Merge(a, b) ==
    [f \in DOMAIN a \cup DOMAIN b |-> IF f \in DOMAIN b THEN b[f] ELSE a[f]]

createDefaultNodeData(type) ==
    CASE type = "imageInput" -> AbsentData
      [] type = "annotation" -> AbsentData
      [] type = "prompt" -> Merge(AbsentData, [prompt |-> ""])
      [] type = "universalGenerator" ->
            Merge(AbsentData, [status |-> "idle", aspectRatio |-> "1:1",
                               resolution |-> "1K", useGoogleSearch |-> <<FALSE>>,
                               model |-> ImagenModel])
      [] type = "splitGrid" ->
            Merge(AbsentData, [status |-> "idle", isConfigured |-> FALSE,
                               gridRows |-> 2, gridCols |-> 3])
      [] type = "output" -> AbsentData

\* array.filter
Filter(s, Test(_)) == SelectSeq(s, Test)

\* nodes.find: the first node that passes, or NoNode
Find(s, Test(_)) ==
    LET hits == SelectSeq(s, Test)
    IN IF hits = <<>> THEN NoNode ELSE Head(hits)

\* array.findIndex, 1-based; 0 where JavaScript gives -1
FindIndex(s, Test(_)) ==
    IF \E k \in 1..Len(s) : Test(s[k])
    THEN CHOOSE k \in 1..Len(s) : Test(s[k]) /\ \A j \in 1..(k - 1) : ~Test(s[j])
    ELSE 0

\* images[0] || null
FirstOrNull(s) == IF s = <<>> THEN Null ELSE IF Truthy(s[1]) THEN s[1] ELSE Null

Ids(ns) == {ns[k].id : k \in 1..Len(ns)}

----------------------------------------------------------------------------
(* Graph store *)

updateNodeData(ns, nodeId, data) ==
    [k \in 1..Len(ns) |->
        IF ns[k].id = nodeId
        THEN [ns[k] EXCEPT !.data = Merge(ns[k].data, data)]
        ELSE ns[k]]

toggleEdgePause(es, edgeId) ==
    [k \in 1..Len(es) |->
        IF es[k].id = edgeId
        THEN [es[k] EXCEPT !.hasPause = ~es[k].hasPause]
        ELSE es[k]]

getNodeById(ns, id) == Find(ns, LAMBDA n : n.id = id)

\* The image one incoming edge contributes, as a sequence of zero or one image
EdgeImages(ns, edge) ==
    LET sourceNode == Find(ns, LAMBDA n : n.id = edge.source)
        handleId == edge.targetHandle
    IN IF sourceNode.id = Undefined THEN <<>>
       ELSE IF ~(handleId = "image" \/ ~Truthy(handleId)) THEN <<>>
       ELSE IF sourceNode.type = "imageInput"
            THEN IF Truthy(sourceNode.data.image)
                 THEN <<sourceNode.data.image>> ELSE <<>>
       ELSE IF sourceNode.type \in {"annotation", "universalGenerator"}
            THEN IF Truthy(sourceNode.data.outputImage)
                 THEN <<sourceNode.data.outputImage>> ELSE <<>>
       ELSE <<>>

\* The text after one incoming edge, given the text before it
EdgeText(ns, edge, text) ==
    LET sourceNode == Find(ns, LAMBDA n : n.id = edge.source)
    IN IF sourceNode.id # Undefined /\ edge.targetHandle = "text"
          /\ sourceNode.type = "prompt"
       THEN sourceNode.data.prompt
       ELSE text

RECURSIVE CollectInputs(_, _, _)
CollectInputs(ns, incoming, acc) ==
    IF incoming = <<>> THEN acc
    ELSE CollectInputs(ns, Tail(incoming),
            [images |-> acc.images \o EdgeImages(ns, Head(incoming)),
             text |-> EdgeText(ns, Head(incoming), acc.text)])

getConnectedInputs(ns, es, nodeId) ==
    CollectInputs(ns, Filter(es, LAMBDA e : e.target = nodeId),
                  [images |-> <<>>, text |-> Null])

----------------------------------------------------------------------------
(* Dependency resolver: the depth-first sort at the head of executeWorkflow *)

RECURSIVE visit(_, _, _, _)
RECURSIVE visitSources(_, _, _, _)

\* visit with the node pushed before its sources are visited
visitPushFirst(ns, es, st, nodeId) ==
    IF st.thrown \/ nodeId \in st.visited THEN st
    ELSE IF nodeId \in st.visiting THEN [st EXCEPT !.thrown = TRUE]
    ELSE LET incoming == Filter(es, LAMBDA e : e.target = nodeId)
             sources == [k \in 1..Len(incoming) |-> incoming[k].source]
             node == Find(ns, LAMBDA n : n.id = nodeId)
             st1 == visitSources(ns, es,
                        [st EXCEPT !.visiting = @ \cup {nodeId},
                                   !.sorted = IF node.id = Undefined THEN @
                                              ELSE Append(@, node)], sources)
         IN IF st1.thrown THEN st1
            ELSE [st1 EXCEPT !.visiting = @ \ {nodeId},
                             !.visited = @ \cup {nodeId}]

\* visit that returns from a node in progress instead of throwing
visitNoThrow(ns, es, st, nodeId) ==
    IF st.thrown \/ nodeId \in st.visited \/ nodeId \in st.visiting THEN st
    ELSE LET incoming == Filter(es, LAMBDA e : e.target = nodeId)
             sources == [k \in 1..Len(incoming) |-> incoming[k].source]
             st1 == visitSources(ns, es,
                        [st EXCEPT !.visiting = @ \cup {nodeId}], sources)
             node == Find(ns, LAMBDA n : n.id = nodeId)
         IN [st1 EXCEPT !.visiting = @ \ {nodeId},
                        !.visited = @ \cup {nodeId},
                        !.sorted = IF node.id = Undefined THEN @
                                   ELSE Append(@, node)]

\* st = [sorted, visited, visiting, thrown]; thrown is the "Cycle detected"
\* exception, which unwinds every enclosing visit.
visit(ns, es, st, nodeId) ==
    IF st.thrown \/ nodeId \in st.visited THEN st
    ELSE IF nodeId \in st.visiting THEN [st EXCEPT !.thrown = TRUE]
    ELSE LET incoming == Filter(es, LAMBDA e : e.target = nodeId)
             sources == [k \in 1..Len(incoming) |-> incoming[k].source]
             st1 == visitSources(ns, es,
                        [st EXCEPT !.visiting = @ \cup {nodeId}], sources)
             node == Find(ns, LAMBDA n : n.id = nodeId)
         IN IF st1.thrown THEN st1
            ELSE [st1 EXCEPT !.visiting = @ \ {nodeId},
                             !.visited = @ \cup {nodeId},
                             !.sorted = IF node.id = Undefined THEN @
                                        ELSE Append(@, node)]

visitSources(ns, es, st, sources) ==
    IF sources = <<>> \/ st.thrown THEN st
    ELSE visitSources(ns, es, visit(ns, es, st, Head(sources)), Tail(sources))

\* nodes.forEach((node) => visit(node.id))
TopologicalSort(ns, es) ==
    visitSources(ns, es,
        [sorted |-> <<>>, visited |-> {}, visiting |-> {}, thrown |-> FALSE],
        [k \in 1..Len(ns) |-> ns[k].id])

----------------------------------------------------------------------------
(* Generation request builder: the body of the POST to /api/generate. A    *)
(* key that is absent from the body (JSON.stringify drops undefined) is    *)
(* Undefined, or <<>> for seed and addWatermark; upscaleConfig holds the   *)
(* nested upscaleFactor.                                                   *)

\* The keys the data of a generator node holds: its defaults, the options of
\* its panel, and what a run writes to it
GeneratorKeys ==
    {"inputImages", "inputPrompt", "outputImage", "aspectRatio", "resolution",
     "model", "useGoogleSearch", "status", "error", "output", "image",
     "operationId", "safetySetting", "upscaleFactor", "sampleImageSize", "seed",
     "addWatermark"}

\* const { model, image, output, status, error, userPrompt, resolution,
\*         outputImage, inputPrompt, inputImages, useGoogleSearch,
\*         ...dynamicConfig } = nodeData     (executeWorkflow)
StrippedKeys ==
    {"model", "image", "output", "status", "error", "userPrompt", "resolution",
     "outputImage", "inputPrompt", "inputImages", "useGoogleSearch"}

\* const { model, image, output, status, error, inputImages, inputPrompt,
\*         resolution, ...dynamicConfig } = nodeData     (regenerateNode)
RegenerateStrippedKeys ==
    {"model", "image", "output", "status", "error", "inputImages", "inputPrompt",
     "resolution"}

\* ...dynamicConfig: the rest of the node's data
DynamicConfig(nodeData, stripped) ==
    [f \in (DOMAIN nodeData \cap GeneratorKeys) \ stripped |-> nodeData[f]]

\* { images, prompt: text, model: nodeData.model, ...dynamicConfig }
Payload(nodeData, images, text, stripped) ==
    Merge([images |-> images, prompt |-> text, model |-> nodeData.model,
           upscaleConfig |-> Undefined, mode |-> Undefined],
          DynamicConfig(nodeData, stripped))

\* a body that spreads the whole data record of the node
RequestPayloadWholeRecord(nodeData, images, text) ==
    Payload(nodeData, images, text, {})

\* the body of executeWorkflow before the sanitization rules
RequestPayload(nodeData, images, text) ==
    Payload(nodeData, images, text, StrippedKeys)

\* if (dynamicConfig.upscaleFactor) { ... }
UpscaleRule(nodeData, payload) ==
    IF Truthy(nodeData.upscaleFactor)
    THEN [payload EXCEPT !.upscaleConfig = nodeData.upscaleFactor,
                         !.mode = "upscale",
                         !.sampleImageSize = Undefined,
                         !.aspectRatio = Undefined,
                         !.upscaleFactor = Undefined]
    ELSE payload

\* if (!nodeData.model.includes('imagen') && requestPayload.aspectRatio)
AspectRatioRule(nodeData, payload) ==
    IF ~Includes(nodeData.model, "imagen") /\ Truthy(payload.aspectRatio)
    THEN [payload EXCEPT !.aspectRatio = Undefined]
    ELSE payload

\* a safety rule that never adds the default
SafetySettingRuleNoDefault(nodeData, payload) ==
    IF ~Includes(nodeData.model, "imagen") /\ Truthy(payload.safetySetting)
    THEN [payload EXCEPT !.safetySetting = Undefined]
    ELSE payload

SafetySettingRule(nodeData, payload) ==
    IF Includes(nodeData.model, "imagen") /\ ~Truthy(payload.safetySetting)
    THEN [payload EXCEPT !.safetySetting = "block_few"]
    ELSE IF ~Includes(nodeData.model, "imagen") /\ Truthy(payload.safetySetting)
    THEN [payload EXCEPT !.safetySetting = Undefined]
    ELSE payload

\* if (requestPayload.seed) requestPayload.addWatermark = false
SeedRule(payload) ==
    IF TruthyNumber(payload.seed)
    THEN [payload EXCEPT !.addWatermark = <<FALSE>>]
    ELSE payload

\* if (requestPayload.addWatermark === true && requestPayload.seed)
WatermarkRule(payload) ==
    IF payload.addWatermark = <<TRUE>> /\ TruthyNumber(payload.seed)
    THEN [payload EXCEPT !.seed = <<>>]
    ELSE payload

\* The body executeWorkflow sends for a generator node
BuildGenerateRequest(nodeData, images, text) ==
    WatermarkRule(SeedRule(SafetySettingRule(nodeData,
        AspectRatioRule(nodeData,
            UpscaleRule(nodeData, RequestPayload(nodeData, images, text))))))

\* The body regenerateNode sends
BuildRegenerateRequest(nodeData, images, text) ==
    Payload(nodeData, images, text, RegenerateStrippedKeys)

----------------------------------------------------------------------------
(* Activations: the local variables of one executeWorkflow / regenerateNode *)
(* call, kept between its awaits                                           *)

NoResult ==
    [thrown |-> FALSE, ok |-> TRUE, success |-> FALSE, output |-> Null,
     image |-> Null, operationId |-> Null, error |-> Null]

NoPoll ==
    [thrown |-> FALSE, ok |-> FALSE, done |-> FALSE, error |-> Null,
     medias |-> <<>>, media |-> Null,
     exception |-> [name |-> "TypeError", message |-> "Failed to fetch"]]

NewActivation(kind, startFromNodeId) ==
    [kind |-> kind,                 \* "run" or "regenerate"
     call |-> callsLeft,            \* history: which call of the behaviour this is
     stopRequested |-> FALSE,       \* history: stopWorkflow was called meanwhile
     pausedBefore |-> pausedAtNodeId, \* history: the paused node when called
     pc |-> "start",                \* the await the call is suspended at, or "done"
     outcome |-> "none",            \* how the call returned
     startFromNodeId |-> startFromNodeId,
     isResuming |-> FALSE,
     edges |-> <<>>,                \* the edges read by the get() at the head of the call
     sorted |-> <<>>,               \* the execution order (node records as read then)
     i |-> 1,                       \* the loop index (1-based)
     node |-> NoNode,               \* the node the call is suspended in
     images |-> <<>>, text |-> Null,
     result |-> NoResult, outputUrl |-> Null, attempts |-> 0, polls |-> 0,
     lastPoll |-> NoPoll,           \* history: the poll answer the call returned on
     splitImages |-> <<>>, index |-> 1,
     requests |-> <<>>,             \* history: the generate and save requests sent
     executed |-> <<>>,             \* history: the nodes whose case was entered
     thrownCycle |-> FALSE,         \* history: visit() threw "Cycle detected"
     errorNode |-> Null,            \* history: the node the call marked as failed
     nodesBefore |-> <<>>]          \* history: store.nodes just before that mark

\* The store fields a call may write, together with the call's activation
Context(act) ==
    [nodes |-> nodes, isRunning |-> isRunning, currentNodeId |-> currentNodeId,
     pausedAtNodeId |-> pausedAtNodeId, globalImageHistory |-> globalImageHistory,
     saves |-> saves, hasUnsavedChanges |-> hasUnsavedChanges,
     act |-> act]

\* a return that leaves the controller as it is
ReturnStillRunning(c, outcome) ==
    [c EXCEPT !.act.pc = "done", !.act.outcome = outcome]

\* set({ isRunning: false, currentNodeId: null }) followed by the return
ReturnIdle(c, outcome) ==
    [c EXCEPT !.isRunning = FALSE, !.currentNodeId = Null,
              !.act.pc = "done", !.act.outcome = outcome]

\* a failure that marks the node and returns but leaves the controller running
FailNodeStillRunning(c, nodeId, message) ==
    [c EXCEPT !.hasUnsavedChanges = TRUE,
              !.nodes = updateNodeData(@, nodeId,
                            [status |-> "error", error |-> message]),
              !.act.errorNode = nodeId, !.act.nodesBefore = c.nodes,
              !.act.pc = "done", !.act.outcome = "error"]

\* a failure that first puts every node back to what the call read at its head
FailNodeRollsBack(c, nodeId, message) ==
    ReturnIdle([c EXCEPT !.hasUnsavedChanges = TRUE,
                         !.nodes = updateNodeData(
                                      [k \in 1..Len(c.nodes) |->
                                          LET old == Find(c.act.sorted,
                                                  LAMBDA n : n.id = c.nodes[k].id)
                                          IN IF old.id = Undefined THEN c.nodes[k]
                                             ELSE old],
                                      nodeId,
                                      [status |-> "error", error |-> message]),
                         !.act.errorNode = nodeId,
                         !.act.nodesBefore = c.nodes],
               "error")

\* a failure that returns to idle without a word on the node
FailNodeUnmarked(c, nodeId, message) ==
    ReturnIdle([c EXCEPT !.act.errorNode = nodeId, !.act.nodesBefore = c.nodes],
               "error")

\* updateNodeData(id, {status: "error", error}); set idle; return
FailNode(c, nodeId, message) ==
    ReturnIdle([c EXCEPT !.hasUnsavedChanges = TRUE,
                         !.nodes = updateNodeData(@, nodeId,
                                      [status |-> "error", error |-> message]),
                         !.act.errorNode = nodeId,
                         !.act.nodesBefore = c.nodes],
               "error")

\* The fire-and-forget fetch("/api/save-generation") of each output
SaveRequests(nodeId, allOutputs, text) ==
    [k \in 1..Len(allOutputs) |->
        [kind |-> "save", node |-> nodeId, url |-> allOutputs[k],
         prompt |-> text,
         suffix |-> IF Len(allOutputs) > 1 THEN k ELSE 0]]

\* The same calls as the promises the browser holds until they settle
SentSaves(act, allOutputs) ==
    [k \in 1..Len(allOutputs) |->
        [node |-> act.node.id, call |-> act.call, url |-> allOutputs[k],
         state |-> "sent"]]

\* executeWorkflow, from "if (result.success && outputUrl)" to its return
FinishGeneration(c, outputUrl, allOutputs) ==
    LET act == c.act
        nodeId == act.node.id
        outputs == IF allOutputs = <<>> /\ Truthy(outputUrl)
                   THEN <<outputUrl>> ELSE allOutputs
    IN IF act.result.success /\ Truthy(outputUrl)
       THEN ReturnIdle(
              [c EXCEPT
                 !.globalImageHistory =
                     <<[image |-> outputUrl, prompt |-> act.text]>> \o @,
                 !.hasUnsavedChanges = TRUE,
                 !.nodes = updateNodeData(@, nodeId,
                     [output |-> outputUrl, image |-> outputUrl,
                      status |-> "success", error |-> Null]),
                 !.act.requests = @ \o SaveRequests(nodeId, outputs, act.text),
                 !.saves = @ \o SentSaves(act, outputs),
                 !.act.outputUrl = outputUrl],
              "generated")
       ELSE FailNode(c, nodeId,
                OrElse(act.result.error, "Generation failed (No output returned)"))

\* a regeneration that also resets the status of every other node
FinishRegenerationResetsOthers(c, finalOutputUrl, allOutputs) ==
    ReturnIdle(
        [c EXCEPT
           !.hasUnsavedChanges = TRUE,
           !.nodes = [k \in 1..Len(c.nodes) |->
                         IF c.nodes[k].id = c.act.node.id
                         THEN [c.nodes[k] EXCEPT !.data.outputImage = finalOutputUrl,
                                                 !.data.status = "complete"]
                         ELSE [c.nodes[k] EXCEPT !.data.status = "idle"]],
           !.act.outputUrl = finalOutputUrl],
        "generated")

\* regenerateNode, from "if (result.success && finalOutputUrl)" to its return
FinishRegeneration(c, finalOutputUrl, allOutputs) ==
    LET act == c.act
        nodeId == act.node.id
        outputs == IF allOutputs = <<>> /\ Truthy(finalOutputUrl)
                   THEN <<finalOutputUrl>> ELSE allOutputs
    IN IF act.result.success /\ Truthy(finalOutputUrl)
       THEN ReturnIdle(
              [c EXCEPT
                 !.globalImageHistory =
                     <<[image |-> finalOutputUrl, prompt |-> act.text]>> \o @,
                 !.hasUnsavedChanges = TRUE,
                 !.nodes = updateNodeData(@, nodeId,
                     [outputImage |-> finalOutputUrl,
                      status |-> "complete", error |-> Null]),
                 !.act.requests = @ \o SaveRequests(nodeId, outputs, act.text),
                 !.saves = @ \o SentSaves(act, outputs),
                 !.act.outputUrl = finalOutputUrl],
              "generated")
       ELSE FailNode(c, nodeId, OrElse(act.result.error, "Generation failed"))

Finish(c, url, allOutputs) ==
    IF c.act.kind = "run" THEN FinishGeneration(c, url, allOutputs)
    ELSE FinishRegeneration(c, url, allOutputs)

----------------------------------------------------------------------------
(* Node executor: the for loop of executeWorkflow. es is the store's       *)
(* current edge list (what get() gives inside getConnectedInputs); the     *)
(* loop itself reads the edges and node records of the activation.         *)

HasPauseEdge(es, nodeId) ==
    \E k \in 1..Len(es) : es[k].target = nodeId /\ es[k].hasPause

\* The results that generators with an image edge into nodeId hold in their
\* output field
WrittenResults(ns, es, nodeId) ==
    LET incoming == Filter(es, LAMBDA e :
                        /\ e.target = nodeId /\ e.targetHandle = "image"
                        /\ getNodeById(ns, e.source).type = "universalGenerator"
                        /\ Truthy(getNodeById(ns, e.source).data.output))
    IN {getNodeById(ns, incoming[k].source).data.output : k \in 1..Len(incoming)}

\* History of one entered node: what the store held when its case was entered
Entered(c, es, node) ==
    [id |-> node.id,
     storePause |-> HasPauseEdge(es, node.id),
     images |-> getConnectedInputs(c.nodes, es, node.id).images,
     written |-> WrittenResults(c.nodes, es, node.id)]

\* case "annotation"
ExecuteAnnotation(c, es, node) ==
    LET image == FirstOrNull(getConnectedInputs(c.nodes, es, node.id).images)
        n1 == updateNodeData(c.nodes, node.id, [sourceImage |-> image])
        n2 == IF ~Truthy(node.data.outputImage)
              THEN updateNodeData(n1, node.id, [outputImage |-> image])
              ELSE n1
    IN IF Truthy(image) THEN [c EXCEPT !.hasUnsavedChanges = TRUE,
                                       !.nodes = n2] ELSE c

\* case "output"
ExecuteOutput(c, es, node) ==
    LET image == FirstOrNull(getConnectedInputs(c.nodes, es, node.id).images)
    IN IF Truthy(image)
       THEN [c EXCEPT !.hasUnsavedChanges = TRUE,
                      !.nodes = updateNodeData(@, node.id, [image |-> image])]
       ELSE c

\* case "universalGenerator", up to the await of fetch("/api/generate")
StartGeneration(c, es, node) ==
    LET inputs == getConnectedInputs(c.nodes, es, node.id)
    IN IF ~Truthy(inputs.text)
       THEN FailNode(c, node.id, "Missing text input")
       ELSE [c EXCEPT
               !.hasUnsavedChanges = TRUE,
               !.nodes = updateNodeData(@, node.id,
                   [inputImages |-> inputs.images, inputPrompt |-> inputs.text,
                    status |-> "loading", error |-> Null]),
               !.act.requests = Append(@,
                   Merge([kind |-> "generate", node |-> node.id],
                         BuildGenerateRequest(node.data, inputs.images,
                                              inputs.text))),
               !.act.pc = "fetch", !.act.node = node,
               !.act.images = inputs.images, !.act.text = inputs.text]

\* case "splitGrid", up to the await of the grid splitter
StartSplit(c, es, node) ==
    LET sourceImage == FirstOrNull(getConnectedInputs(c.nodes, es, node.id).images)
    IN IF ~Truthy(sourceImage)
       THEN FailNode(c, node.id, "No input image connected")
       ELSE IF ~node.data.isConfigured
       THEN FailNode(c, node.id, "Node not configured - open settings first")
       ELSE [c EXCEPT
               !.hasUnsavedChanges = TRUE,
               !.nodes = updateNodeData(@, node.id,
                   [sourceImage |-> sourceImage, status |-> "loading",
                    error |-> Null]),
               !.act.pc = "split", !.act.node = node]

RECURSIVE ExecuteFrom(_, _)
RECURSIVE SplitLoop(_, _)

\* The for loop from index c.act.i, up to the next await or the return
ExecuteFrom(c, es) ==
    LET act == c.act IN
    IF act.i > Len(act.sorted) THEN ReturnIdle(c, "completed")
    ELSE
    LET node == act.sorted[act.i]
        isResumingThisNode == act.isResuming /\ node.id = act.startFromNodeId
        entered == [c EXCEPT !.currentNodeId = node.id,
                             !.act.executed = Append(@, Entered(c, es, node))]
        \* (the set binds the record once, whatever it is computed from)
        next(d) == CHOOSE r \in {ExecuteFrom([x EXCEPT !.act.i = @ + 1], es) :
                                    x \in {d}} : TRUE
    IN IF ~c.isRunning THEN ReturnIdle(c, "stopped")
       ELSE IF ~isResumingThisNode /\ HasPauseEdge(act.edges, node.id)
       THEN [c EXCEPT !.pausedAtNodeId = node.id, !.isRunning = FALSE,
                      !.currentNodeId = Null,
                      !.act.pc = "done", !.act.outcome = "paused"]
       ELSE CASE node.type = "annotation" -> next(ExecuteAnnotation(entered, es, node))
              [] node.type = "universalGenerator" -> StartGeneration(entered, es, node)
              [] node.type = "splitGrid" -> StartSplit(entered, es, node)
              [] node.type = "output" -> next(ExecuteOutput(entered, es, node))
              [] OTHER -> next(entered)

\* The loop over childNodeIds from index c.act.index, up to the next image
\* load or, past the last child, on into the for loop
SplitLoop(c, es) ==
    LET act == c.act
        nodeData == act.node.data
    IN IF act.index > Len(nodeData.childNodeIds)
       THEN CHOOSE r \in {ExecuteFrom(x, es) : x \in {
              [c EXCEPT !.hasUnsavedChanges = TRUE,
                        !.nodes = updateNodeData(@, act.node.id,
                                      [status |-> "complete", error |-> Null]),
                        !.act.pc = "start", !.act.i = @ + 1]}} : TRUE
       ELSE IF act.index <= Len(act.splitImages) /\ Truthy(act.splitImages[act.index])
       THEN [c EXCEPT !.act.pc = "tile"]
       ELSE SplitLoop([c EXCEPT !.act.index = @ + 1], es)

\* img.onload of the tile at c.act.index
TileLoaded(c) ==
    LET act == c.act
        nodeData == act.node.data
        zero == act.index - 1
    IN [c EXCEPT !.hasUnsavedChanges = TRUE,
                 !.nodes = updateNodeData(@,
                     nodeData.childNodeIds[act.index].imageInput,
                     [image |-> act.splitImages[act.index],
                      filename |-> <<"split", (zero \div nodeData.gridCols) + 1,
                                     (zero % nodeData.gridCols) + 1>>,
                      dimensions |-> "measured"])]

\* a loop that starts at the first node whatever the start node is
StartIndexFirst(sorted, startFromNodeId) == 1

\* let startIndex = 0; if (startFromNodeId) { ... findIndex ... }   (1-based)
StartIndex(sorted, startFromNodeId) ==
    LET nodeIndex == FindIndex(sorted, LAMBDA n : n.id = startFromNodeId)
    IN IF Truthy(startFromNodeId) /\ nodeIndex # 0 THEN nodeIndex ELSE 1

\* a run that, called without a start node, goes on from the paused node
StartRunAtPaused(c, ns, es, startFromNodeId) ==
    LET start == IF startFromNodeId = Undefined THEN c.pausedAtNodeId
                 ELSE startFromNodeId
        c1 == [c EXCEPT !.isRunning = TRUE, !.pausedAtNodeId = Null,
                        !.act.isResuming = (startFromNodeId = c.pausedAtNodeId),
                        !.act.edges = es]
        st == TopologicalSort(ns, es)
    IN IF st.thrown
       THEN ReturnIdle([c1 EXCEPT !.act.thrownCycle = TRUE], "cycle")
       ELSE ExecuteFrom([c1 EXCEPT !.act.sorted = st.sorted,
                                   !.act.i = StartIndex(st.sorted, start)], es)

\* executeWorkflow from its first line to the first await or the return
StartRun(c, ns, es, startFromNodeId) ==
    LET isResuming == startFromNodeId = c.pausedAtNodeId
        c1 == [c EXCEPT !.isRunning = TRUE, !.pausedAtNodeId = Null,
                        !.act.isResuming = isResuming, !.act.edges = es]
        st == TopologicalSort(ns, es)
        startIndex == StartIndex(st.sorted, startFromNodeId)
    IN IF st.thrown
       THEN ReturnIdle([c1 EXCEPT !.act.thrownCycle = TRUE], "cycle")
       ELSE ExecuteFrom([c1 EXCEPT !.act.sorted = st.sorted,
                                   !.act.i = startIndex], es)

\* a fallback that prefers the stored prompt to the connected one
RegenerateTextStoredFirst(inputs, nodeData) ==
    Coalesce(nodeData.inputPrompt, inputs.text)

\* let images = inputs.images.length > 0 ? inputs.images : nodeData.inputImages
RegenerateImages(inputs, nodeData) ==
    IF Len(inputs.images) > 0 THEN inputs.images ELSE nodeData.inputImages

\* let text = inputs.text ?? nodeData.inputPrompt
RegenerateText(inputs, nodeData) ==
    Coalesce(inputs.text, nodeData.inputPrompt)

\* regenerateNode from "set({ isRunning: true, ... })" to the first await or
\* the return; node is the record found in the nodes read at the head
StartRegenerate(c, es, node) ==
    LET nodeData == node.data
        c1 == [c EXCEPT !.isRunning = TRUE, !.currentNodeId = node.id,
                        !.act.node = node,
                        !.act.executed = <<Entered(c, es, node)>>]
        inputs == getConnectedInputs(c.nodes, es, node.id)
        images == RegenerateImages(inputs, nodeData)
        text == RegenerateText(inputs, nodeData)
    IN IF node.type # "universalGenerator" THEN ReturnIdle(c1, "completed")
       ELSE IF ~Truthy(text)
       THEN FailNode(c1, node.id, "Missing connected text prompt")
       ELSE [c1 EXCEPT
               !.hasUnsavedChanges = TRUE,
               !.nodes = updateNodeData(@, node.id,
                             [status |-> "loading", error |-> Null]),
               !.act.requests = Append(@,
                   Merge([kind |-> "generate", node |-> node.id],
                         BuildRegenerateRequest(nodeData, images, text))),
               !.act.pc = "fetch",
               !.act.images = images, !.act.text = text]

\* The message the catch of the generator case derives from what was thrown
GeneratorCatchMessage(e) ==
    CASE e.name = "AbortError" ->
            "Request timed out. Try reducing image sizes or using a simpler prompt."
      [] e.name = "TypeError" /\ e.message = "NetworkError when attempting to fetch resource." ->
            "Network error. Check your connection and try again."
      [] e.name = "TypeError" /\ e.message = "Failed to fetch" ->
            "Network error: Failed to fetch"
      [] OTHER -> e.message

\* The message the catch of regenerateNode derives from what was thrown
RegenerateCatchMessage(e) == e.message

CatchMessage(act, e) ==
    IF act.kind = "run" THEN GeneratorCatchMessage(e) ELSE RegenerateCatchMessage(e)

\* The message the catch of the splitGrid case derives from what was thrown
SplitCatchMessage(e) == e.message

\* a job whose node shows a status of its own while it is polled
JobStatusPolling == "polling"

\* updateNodeData(node.id, { operationId: result.operationId, status: "loading" })
JobStatus == "loading"

\* Both calls, from the resolution of fetch("/api/generate") on
AfterFetch(c, r) ==
    LET act == c.act
        nodeId == act.node.id
        outputUrl == IF act.kind = "run" THEN OrElse(r.output, r.image)
                     ELSE OrElse(r.image, r.output)
    IN IF r.thrown THEN FailNode(c, nodeId, CatchMessage(act, r.exception))
       ELSE IF ~r.ok THEN FailNode(c, nodeId, OrElse(r.error, "HTTP 500"))
       ELSE IF Truthy(r.operationId)
       THEN [c EXCEPT
               !.hasUnsavedChanges = TRUE,
               !.nodes = updateNodeData(@, nodeId,
                   [operationId |-> r.operationId, status |-> JobStatus]),
               !.act.result = r, !.act.outputUrl = outputUrl,
               !.act.attempts = 0, !.act.pc = "pollWait"]
       ELSE Finish([c EXCEPT !.act.result = r], outputUrl, <<>>)

\* a poller that takes the last artifact as the primary result
LastArtifact(medias) == medias[Len(medias)]

\* outputUrl = pollData.medias[0].url
PrimaryArtifact(medias) == medias[1]

\* a poll loop that allows one attempt more
LoopContinuesOnceMore(attempts) == attempts < MaxPollAttempts + 1

\* while (attempts < 120), read after attempts++
LoopContinues(attempts) == attempts < MaxPollAttempts

\* a poller that does not look at the error field
JobErrorIgnored(p) == FALSE

\* if (pollData.error)
JobError(p) == p.error # Null

\* a poll loop whose end without an artifact counts as a success
PollWithoutSuccessPasses(c, nodeId) ==
    ReturnIdle([c EXCEPT !.hasUnsavedChanges = TRUE,
                         !.nodes = updateNodeData(@, nodeId,
                             [status |-> IF c.act.kind = "run" THEN "success"
                                         ELSE "complete",
                              error |-> Null])],
               "generated")

\* if (!pollSuccess) throw new Error("Video generation timed out"), which the
\* catch of the call turns into the node's error
PollWithoutSuccess(c, nodeId) ==
    FailNode(c, nodeId, "Video generation timed out")

\* Both calls, from the resolution of fetch("/api/operations?id=...") on
AfterPoll(c, p) ==
    LET act == c.act
        nodeId == act.node.id
        last == [c EXCEPT !.act.lastPoll = p]
    IN IF p.thrown THEN FailNode(last, nodeId, CatchMessage(act, p.exception))
       ELSE IF p.ok /\ p.done
       THEN IF JobError(p)
            THEN FailNode(last, nodeId, OrElse(p.error, "Operation failed"))
            ELSE IF Len(p.medias) > 0
            THEN Finish(last, PrimaryArtifact(p.medias), p.medias)
            ELSE IF Truthy(p.media) THEN Finish(last, p.media, <<p.media>>)
            ELSE PollWithoutSuccess(last, nodeId)
       ELSE IF LoopContinues(act.attempts + 1)
       THEN [c EXCEPT !.act.attempts = @ + 1, !.act.pc = "pollWait"]
       ELSE PollWithoutSuccess([last EXCEPT !.act.attempts = @ + 1], nodeId)

\* executeWorkflow, from the resolution of splitWithDimensions on
AfterSplit(c, es, s) ==
    IF s.thrown THEN FailNode(c, c.act.node.id, SplitCatchMessage(s.exception))
    ELSE SplitLoop([c EXCEPT !.act.splitImages = s.images, !.act.index = 1], es)

\* executeWorkflow, from img.onload / img.onerror of one tile on
AfterTile(c, es, loaded) ==
    SplitLoop([(IF loaded THEN TileLoaded(c) ELSE c) EXCEPT !.act.index = @ + 1], es)

----------------------------------------------------------------------------
(* The environment: what the awaited calls may answer *)

\* how many polls of one job may pass without "done" when jobs are short
MaxPending == 1
\* how many run / regenerate calls are accepted in one behaviour
MaxCalls == 2
\* how many pause flags the user toggles in one behaviour
MaxToggles == 1

Response(thrown, ok, success, image, operationId, error) ==
    [thrown |-> thrown, ok |-> ok, success |-> success, output |-> Null,
     image |-> image, operationId |-> operationId, error |-> error,
     exception |-> [name |-> "TypeError", message |-> "Failed to fetch"]]

\* Answers of POST /api/generate: a rejected fetch, an HTTP error, a refusal,
\* a success without an output
GenerateFailures ==
    {Response(TRUE, FALSE, FALSE, Null, Null, Null),
     Response(FALSE, FALSE, FALSE, Null, Null, "Quota exceeded"),
     Response(FALSE, TRUE, FALSE, Null, Null, "No image or text in response"),
     Response(FALSE, TRUE, TRUE, Null, Null, Null)}

\* Answers of POST /api/generate: an image, or the handle of a job
GenerateResponses ==
    GenerateFailures \cup
    {Response(FALSE, TRUE, TRUE, "url1", Null, Null),
     Response(FALSE, TRUE, TRUE, Null, "op1", Null)}

Poll(thrown, ok, done, error, medias, media) ==
    [thrown |-> thrown, ok |-> ok, done |-> done, error |-> error,
     medias |-> medias, media |-> media,
     exception |-> [name |-> "TypeError", message |-> "Failed to fetch"]]

\* Answers of GET /api/operations: a rejected fetch, a job that ended with an
\* error, a job that ended without any artifact
PollFailures ==
    {Poll(TRUE, FALSE, FALSE, Null, <<>>, Null),
     Poll(FALSE, TRUE, TRUE, "Operation failed upstream", <<>>, Null),
     Poll(FALSE, TRUE, TRUE, Null, <<>>, Null)}

\* Answers of GET /api/operations that end the polling
PollAnswers ==
    PollFailures \cup
    {Poll(FALSE, TRUE, TRUE, Null, <<"vid1">>, "vid1"),
     Poll(FALSE, TRUE, TRUE, Null, <<"vid1", "vid2">>, "vid1"),
     Poll(FALSE, TRUE, TRUE, Null, <<>>, "vid1")}

\* Answers of GET /api/operations that leave the job pending
PollPending ==
    {Poll(FALSE, FALSE, FALSE, Null, <<>>, Null),
     Poll(FALSE, TRUE, FALSE, Null, <<>>, Null)}

\* Outcomes of splitWithDimensions
SplitOutcomes ==
    {[thrown |-> TRUE, images |-> <<>>,
      exception |-> [name |-> "Error", message |-> "Failed to load image"]],
     [thrown |-> FALSE, images |-> <<>>, exception |-> Null],
     [thrown |-> FALSE, images |-> <<"tile1">>, exception |-> Null]}

----------------------------------------------------------------------------
(* Actions *)

\* The activations that have not returned
Live(as) == SelectSeq(as, LAMBDA act : act.pc # "done")

NoCall == [op |-> "-", rejected |-> FALSE]

\* Write the context of activation a back to the store
Commit(c, newActs) ==
    /\ nodes' = c.nodes
    /\ isRunning' = c.isRunning
    /\ currentNodeId' = c.currentNodeId
    /\ pausedAtNodeId' = c.pausedAtNodeId
    /\ globalImageHistory' = c.globalImageHistory
    /\ hasUnsavedChanges' = c.hasUnsavedChanges
    /\ userEdits' = userEdits
    /\ saves' = SelectSeq(c.saves, LAMBDA save :
                     \E k \in 1..Len(newActs) : newActs[k].call = save.call)
    /\ acts' = newActs

\* a guard that lets every call through
RejectsNoCall(running) == FALSE

\* if (isRunning) return;   (read from the get() at the head of the call)
RejectsCall(running) == running

executeWorkflow(startFromNodeId) ==
    IF RejectsCall(isRunning)
    THEN /\ lastCall' = [op |-> "executeWorkflow", rejected |-> TRUE]
         /\ UNCHANGED <<nodes, edges, isRunning, currentNodeId, pausedAtNodeId,
                        globalImageHistory, saves, userEdits, hasUnsavedChanges, acts, jobPending,
                        mayFail, callsLeft, togglesLeft, editVars>>
    ELSE /\ callsLeft > 0
         /\ LET c == StartRun(Context(NewActivation("run", startFromNodeId)),
                              nodes, edges, startFromNodeId)
            IN Commit(c, Append(Live(acts), c.act))
         /\ callsLeft' = callsLeft - 1
         /\ lastCall' = NoCall
         /\ UNCHANGED <<edges, jobPending, mayFail, togglesLeft, editVars>>

regenerateNode(nodeId) ==
    IF RejectsCall(isRunning)
    THEN /\ lastCall' = [op |-> "regenerateNode", rejected |-> TRUE]
         /\ UNCHANGED <<nodes, edges, isRunning, currentNodeId, pausedAtNodeId,
                        globalImageHistory, saves, userEdits, hasUnsavedChanges, acts, jobPending,
                        mayFail, callsLeft, togglesLeft, editVars>>
    ELSE /\ callsLeft > 0
         /\ LET node == Find(nodes, LAMBDA n : n.id = nodeId)
                c == StartRegenerate(Context(NewActivation("regenerate", Undefined)),
                                     edges, node)
            IN IF node.id = Undefined
               THEN UNCHANGED <<nodes, isRunning, currentNodeId, pausedAtNodeId,
                                globalImageHistory, saves, userEdits, hasUnsavedChanges, acts, callsLeft, editVars>>
               ELSE /\ Commit(c, Append(Live(acts), c.act))
                    /\ callsLeft' = callsLeft - 1
         /\ lastCall' = NoCall
         /\ UNCHANGED <<edges, jobPending, mayFail, togglesLeft, editVars>>

stopWorkflow ==
    /\ isRunning' = FALSE
    /\ currentNodeId' = Null
    /\ acts' = [a \in 1..Len(acts) |->
                  IF acts[a].pc = "done" THEN acts[a]
                  ELSE [acts[a] EXCEPT !.stopRequested = TRUE]]
    /\ lastCall' = NoCall
    /\ UNCHANGED <<nodes, edges, pausedAtNodeId, globalImageHistory, saves, userEdits, hasUnsavedChanges,
                   jobPending, mayFail, callsLeft, togglesLeft, editVars>>

\* The user toggles the pause flag of the k-th edge
ToggleEdgePause(k) ==
    /\ togglesLeft > 0
    /\ togglesLeft' = togglesLeft - 1
    /\ edges' = toggleEdgePause(edges, edges[k].id)
    /\ lastCall' = NoCall
    /\ UNCHANGED <<nodes, isRunning, currentNodeId, pausedAtNodeId,
                   globalImageHistory, saves, userEdits, acts, jobPending, mayFail, callsLeft, editVars>>
    /\ hasUnsavedChanges' = TRUE

\* A step of activation a that resumes from its await
Resume(a, c) ==
    /\ \E after \in {c} : Commit(after, [acts EXCEPT ![a] = after.act])
    /\ lastCall' = NoCall
    /\ UNCHANGED <<edges, jobPending, mayFail, callsLeft, togglesLeft, editVars>>

\* how a fetch("/api/save-generation") settles: a 2xx response, an error
\* response, or a rejection (network failure)
SaveOutcomes == {"ok", "failed", "rejected"}

\* a settling that marks the node as failed when the save did not succeed
SaveSettlesFailsNode(k, outcome) ==
    /\ saves[k].state = "sent"
    /\ outcome # "ok" => mayFail
    /\ saves' = [saves EXCEPT ![k].state = outcome]
    /\ nodes' = IF outcome = "ok" THEN nodes
                ELSE updateNodeData(nodes, saves[k].node,
                         [status |-> "error", error |-> "Failed to save generation"])
    /\ lastCall' = NoCall
    /\ UNCHANGED <<edges, isRunning, currentNodeId, pausedAtNodeId,
                   globalImageHistory, acts, jobPending, mayFail, callsLeft,
                   togglesLeft, userEdits, editVars>>
    /\ hasUnsavedChanges' = TRUE

\* the k-th fetch("/api/save-generation") settles: nobody reads the response,
\* and .catch logs a rejection
SaveSettles(k, outcome) ==
    /\ saves[k].state = "sent"
    /\ outcome # "ok" => mayFail
    /\ saves' = [saves EXCEPT ![k].state = outcome]
    /\ lastCall' = NoCall
    /\ UNCHANGED <<nodes, edges, isRunning, currentNodeId, pausedAtNodeId,
                   globalImageHistory, acts, jobPending, mayFail, callsLeft,
                   togglesLeft, userEdits, editVars>>
    /\ UNCHANGED hasUnsavedChanges

\* fetch("/api/generate") settles
GenerateSettles(a, r) ==
    /\ acts[a].pc = "fetch"
    /\ r \in GenerateFailures => mayFail
    /\ Resume(a, AfterFetch(Context(acts[a]), r))

\* the 5 s timer fires and the poll request is sent
PollTimerFires(a) ==
    /\ acts[a].pc = "pollWait"
    /\ Resume(a, [Context(acts[a]) EXCEPT !.act.pc = "pollFetch",
                                          !.act.polls = @ + 1])

\* fetch("/api/operations") settles
PollSettles(a, p) ==
    /\ acts[a].pc = "pollFetch"
    /\ p \in PollPending => acts[a].attempts < jobPending
    /\ p \in PollFailures => mayFail
    /\ Resume(a, AfterPoll(Context(acts[a]), p))

\* splitWithDimensions settles
SplitSettles(a, s) ==
    /\ acts[a].pc = "split"
    /\ s.thrown => mayFail
    /\ Resume(a, AfterSplit(Context(acts[a]), edges, s))

\* the Image of one tile loads or fails to load
TileSettles(a, loaded) ==
    /\ acts[a].pc = "tile"
    /\ ~loaded => mayFail
    /\ Resume(a, AfterTile(Context(acts[a]), edges, loaded))

----------------------------------------------------------------------------
(* Initial workflows: graphs the user builds with addNode, onConnect and   *)
(* updateNodeData before the first run                                     *)

Node(id, type, data) ==
    [id |-> id, type |-> type, data |-> Merge(createDefaultNodeData(type), data),
     groupId |-> Undefined, selected |-> FALSE]

\* onConnect: the edge id is derived from the endpoints and the handles
Edge(source, target, targetHandle) ==
    [id |-> <<"edge", source, target, "default", OrElse(targetHandle, "default")>>,
     source |-> source, target |-> target, targetHandle |-> targetHandle,
     type |-> Undefined, hasPause |-> FALSE]

\* image and prompt into a generator, the generator into an output
GenerateWorkflow(prompt) ==
    [nodes |-> <<Node("output-1", "output", [image |-> Null]),
                 Node("universalGenerator-2", "universalGenerator", [error |-> Null]),
                 Node("imageInput-3", "imageInput", [image |-> "imgA"]),
                 Node("prompt-4", "prompt", [prompt |-> prompt])>>,
     edges |-> <<Edge("imageInput-3", "universalGenerator-2", "image"),
                 Edge("prompt-4", "universalGenerator-2", "text"),
                 Edge("universalGenerator-2", "output-1", "image")>>]

\* an image into a grid splitter that feeds one child input, which feeds a
\* generator that has no prompt yet; the first edge may be a pause checkpoint
SplitWorkflow(image, isConfigured, hasPause) ==
    [nodes |-> <<Node("imageInput-1", "imageInput", [image |-> image]),
                 Node("splitGrid-2", "splitGrid",
                      [isConfigured |-> isConfigured,
                       childNodeIds |-> <<[imageInput |-> "imageInput-3"]>>]),
                 Node("imageInput-3", "imageInput", [image |-> Null]),
                 Node("universalGenerator-4", "universalGenerator", [error |-> Null])>>,
     edges |-> <<[Edge("imageInput-1", "splitGrid-2", "image")
                     EXCEPT !.hasPause = hasPause],
                 Edge("splitGrid-2", "imageInput-3", "reference"),
                 Edge("imageInput-3", "universalGenerator-4", "image")>>]

\* an image through an annotation into an output, both edges pause checkpoints
AnnotateWorkflow ==
    [nodes |-> <<Node("imageInput-1", "imageInput", [image |-> "imgA"]),
                 Node("annotation-2", "annotation", [outputImage |-> Null]),
                 Node("output-3", "output", [image |-> Null])>>,
     edges |-> toggleEdgePause(toggleEdgePause(
                 <<Edge("imageInput-1", "annotation-2", "image"),
                   Edge("annotation-2", "output-3", "image")>>,
                 Edge("imageInput-1", "annotation-2", "image").id),
                 Edge("annotation-2", "output-3", "image").id)]

\* two annotations feeding each other
CyclicWorkflow ==
    [nodes |-> <<Node("annotation-1", "annotation", [outputImage |-> "imgA"]),
                 Node("annotation-2", "annotation", [outputImage |-> "imgB"])>>,
     edges |-> <<Edge("annotation-1", "annotation-2", "image"),
                 Edge("annotation-2", "annotation-1", "image")>>]

Workflows ==
    {GenerateWorkflow("a cat"), GenerateWorkflow(""),
     SplitWorkflow("imgA", TRUE, FALSE), SplitWorkflow("imgA", TRUE, TRUE),
     SplitWorkflow(Null, TRUE, FALSE), SplitWorkflow("imgA", FALSE, FALSE),
     AnnotateWorkflow, CyclicWorkflow}

InitStore(w) ==
    /\ nodes = w.nodes
    /\ edges = w.edges
    /\ isRunning = FALSE
    /\ currentNodeId = Null
    /\ pausedAtNodeId = Null
    /\ globalImageHistory = <<>>
    /\ saves = <<>>
    /\ userEdits = <<>>
    /\ acts = <<>>
    /\ lastCall = NoCall
    /\ groups = NoGroups
    /\ clipboard = NoClipboard
    /\ nodeIdCounter = Len(w.nodes)
    /\ groupIdCounter = 0
    /\ createdIds = [k \in 1..Len(w.nodes) |-> w.nodes[k].id]
    /\ restoredIds = {}
    /\ hasUnsavedChanges = TRUE
    /\ isSaving = FALSE
    /\ workflowId = Null
    /\ workflowName = Null
    /\ saveDirectoryPath = Null
    /\ autoSaveEnabled = TRUE
    /\ fileSaves = <<>>
    /\ written = NoDocument
    /\ ticksLeft = 0

\* One call in a world where requests fail and the user toggles a pause flag;
\* one call in a world where a job may never end; several calls in a world
\* where every request succeeds
Init ==
    /\ \E w \in Workflows : InitStore(w)
    /\ \/ /\ jobPending = MaxPending /\ mayFail = TRUE
          /\ callsLeft = 1 /\ togglesLeft = MaxToggles
       \/ /\ jobPending = MaxPollAttempts /\ mayFail = TRUE
          /\ callsLeft = 1 /\ togglesLeft = 0
       \/ /\ jobPending = MaxPending /\ mayFail = FALSE
          /\ callsLeft = MaxCalls /\ togglesLeft = MaxToggles
    /\ editsLeft = 0

StartChoices == Ids(nodes) \cup {Undefined}

Next ==
    \/ \E s \in StartChoices : executeWorkflow(s)
    \/ \E n \in Ids(nodes) \cup {"deleted-9"} : regenerateNode(n)
    \/ stopWorkflow
    \/ \E k \in 1..Len(edges) : ToggleEdgePause(k)
    \/ \E a \in 1..Len(acts) : \E r \in GenerateResponses : GenerateSettles(a, r)
    \/ \E a \in 1..Len(acts) : PollTimerFires(a)
    \/ \E a \in 1..Len(acts) : \E p \in PollAnswers \cup PollPending : PollSettles(a, p)
    \/ \E a \in 1..Len(acts) : \E s \in SplitOutcomes : SplitSettles(a, s)
    \/ \E a \in 1..Len(acts) : \E l \in BOOLEAN : TileSettles(a, l)

Spec == Init /\ [][Next]_vars

\* Every request, poll timer, poll, split and image load that is awaited
\* eventually answers
Settles ==
    \/ \E a \in 1..Len(acts) : \E r \in GenerateResponses : GenerateSettles(a, r)
    \/ \E a \in 1..Len(acts) : PollTimerFires(a)
    \/ \E a \in 1..Len(acts) : \E p \in PollAnswers \cup PollPending : PollSettles(a, p)
    \/ \E a \in 1..Len(acts) : \E s \in SplitOutcomes : SplitSettles(a, s)
    \/ \E a \in 1..Len(acts) : \E l \in BOOLEAN : TileSettles(a, l)

Answers == WF_vars(Settles)

SpecFair == Spec /\ Answers

----------------------------------------------------------------------------
(* The engine together with the settling of its save calls, for one call   *)
(* in a world where requests fail                                          *)

InitSave ==
    /\ \E w \in Workflows : InitStore(w)
    /\ jobPending = MaxPending /\ mayFail = TRUE
    /\ callsLeft = 1 /\ togglesLeft = MaxToggles
    /\ editsLeft = 0

NextSave ==
    \/ Next
    \/ \E k \in 1..Len(saves) : \E outcome \in SaveOutcomes : SaveSettles(k, outcome)

SpecSave == InitSave /\ [][NextSave]_vars

----------------------------------------------------------------------------
(* The engine together with the user editing node data while a call is in  *)
(* progress                                                                *)

\* how many updateNodeData calls the user makes in one behaviour
MaxLiveEdits == 1

\* an image through a grid splitter into one child input, the child into an
\* annotation that has no drawing yet, the annotation into an output
SplitAnnotateWorkflow ==
    [nodes |-> <<Node("imageInput-1", "imageInput", [image |-> "imgA"]),
                 Node("splitGrid-2", "splitGrid",
                      [isConfigured |-> TRUE,
                       childNodeIds |-> <<[imageInput |-> "imageInput-3"]>>]),
                 Node("imageInput-3", "imageInput", [image |-> Null]),
                 Node("annotation-4", "annotation", [outputImage |-> Null]),
                 Node("output-5", "output", [image |-> Null])>>,
     edges |-> <<Edge("imageInput-1", "splitGrid-2", "image"),
                 Edge("splitGrid-2", "imageInput-3", "reference"),
                 Edge("imageInput-3", "annotation-4", "image"),
                 Edge("annotation-4", "output-5", "image")>>]

\* What the node's own controls write: the prompt text, a generator option,
\* the drawing saved by the annotation editor
UserEdits(type) ==
    CASE type = "prompt" -> {[prompt |-> "a dog"]}
      [] type = "universalGenerator" -> {[aspectRatio |-> "16:9"]}
      [] type = "annotation" -> {[outputImage |-> "imgDrawn"]}
      [] OTHER -> {}

\* The user edits a node: updateNodeData(nodeId, data) called by a control
UserUpdateNodeData(nodeId, data) ==
    /\ editsLeft > 0
    /\ editsLeft' = editsLeft - 1
    /\ nodes' = updateNodeData(nodes, nodeId, data)
    /\ userEdits' = Append(userEdits,
                         [nodeId |-> nodeId, data |-> data,
                          executing |-> currentNodeId,
                          suspended |-> Live(acts) # <<>>])
    /\ lastCall' = NoCall
    /\ UNCHANGED <<edges, isRunning, currentNodeId, pausedAtNodeId,
                   globalImageHistory, saves, acts, jobPending, mayFail,
                   callsLeft, togglesLeft, groups, clipboard, nodeIdCounter,
                   groupIdCounter, createdIds, restoredIds, fileVars>>
    /\ hasUnsavedChanges' = TRUE

InitLiveEdit ==
    /\ \E w \in Workflows \cup {SplitAnnotateWorkflow} : InitStore(w)
    /\ jobPending = MaxPending /\ mayFail = TRUE
    /\ callsLeft = 1 /\ togglesLeft = MaxToggles
    /\ editsLeft = MaxLiveEdits

NextLiveEdit ==
    \/ Next
    \/ \E k \in 1..Len(nodes) : \E data \in UserEdits(nodes[k].type) :
          UserUpdateNodeData(nodes[k].id, data)

SpecLiveEdit == InitLiveEdit /\ [][NextLiveEdit]_vars

----------------------------------------------------------------------------
(* Runs over an annotation node between which the user replaces the        *)
(* upstream image or saves a drawing                                       *)

\* how many updateNodeData calls the user makes between the runs
MaxAnnotateEdits == 2

\* an image through an annotation that has no drawing yet into an output
PassThroughWorkflow ==
    [nodes |-> <<Node("imageInput-1", "imageInput", [image |-> "imgA"]),
                 Node("annotation-2", "annotation", [outputImage |-> Null]),
                 Node("output-3", "output", [image |-> Null])>>,
     edges |-> <<Edge("imageInput-1", "annotation-2", "image"),
                 Edge("annotation-2", "output-3", "image")>>]

\* What the user loads into an image input
UploadedImages == {"imgB", "imgC"}

InitAnnotate ==
    /\ InitStore(PassThroughWorkflow)
    /\ jobPending = 0 /\ mayFail = FALSE
    /\ callsLeft = MaxCalls /\ togglesLeft = 0
    /\ editsLeft = MaxAnnotateEdits

NextAnnotate ==
    \/ \E s \in StartChoices : executeWorkflow(s)
    \/ \E image \in UploadedImages :
          UserUpdateNodeData("imageInput-1", [image |-> image])
    \/ \E data \in UserEdits("annotation") : UserUpdateNodeData("annotation-2", data)

SpecAnnotate == InitAnnotate /\ [][NextAnnotate]_vars

----------------------------------------------------------------------------
(* The dependency resolver on every small graph: annotation nodes that     *)
(* each hold a drawn image, and any set of edges between them              *)

\* how many nodes and edges the enumerated graphs have at most
MaxSortNodes == 3
MaxSortEdges == 4

SortIdPool ==
    <<"annotation-1", "annotation-2", "annotation-3", "annotation-4",
      "annotation-5", "annotation-6">>

SortNodes(k) ==
    [j \in 1..k |-> Node(SortIdPool[j], "annotation", [outputImage |-> "imgA"])]

\* The pairs of a set in ascending (up) or descending order of source, target
RECURSIVE PairsInOrder(_, _)
PairsInOrder(pairs, up) ==
    IF pairs = {} THEN <<>>
    ELSE LET before(p, q) == p[1] < q[1] \/ (p[1] = q[1] /\ p[2] <= q[2])
             first == CHOOSE p \in pairs :
                        \A q \in pairs : IF up THEN before(p, q) ELSE before(q, p)
         IN <<first>> \o PairsInOrder(pairs \ {first}, up)

SortEdges(pairs, up) ==
    LET order == PairsInOrder(pairs, up)
    IN [j \in 1..Len(order) |->
          Edge(SortIdPool[order[j][1]], SortIdPool[order[j][2]], "image")]

InitSort ==
    /\ \E k \in 1..MaxSortNodes :
         \E pairs \in SUBSET ((1..k) \X (1..k)) :
           \E up \in BOOLEAN :
             /\ Cardinality(pairs) <= MaxSortEdges
             /\ InitStore([nodes |-> SortNodes(k), edges |-> SortEdges(pairs, up)])
    /\ jobPending = 0 /\ mayFail = FALSE /\ callsLeft = 1 /\ togglesLeft = 0
    /\ editsLeft = 0

NextSort == \E s \in StartChoices : executeWorkflow(s)

SpecSort == InitSort /\ [][NextSort]_vars

----------------------------------------------------------------------------
(* Graph store editing: the operations the editor calls while no run is in *)
(* progress, starting from the empty store                                 *)

\* how many editing operations are called in one behaviour
MaxEdits == 3

\* `${type}-${++nodeIdCounter}`
NodeId(type, counter) == type \o "-" \o ToString(counter)

\* `group-${++groupIdCounter}`
GroupId(counter) == "group-" \o ToString(counter)

\* the node types the editor adds here
EditTypes == {"imageInput", "output"}

\* The edit wrote the store's nodes and edges and nothing else
Edited(op, newNodes, newEdges) ==
    /\ editsLeft > 0
    /\ editsLeft' = editsLeft - 1
    /\ nodes' = newNodes
    /\ edges' = newEdges
    /\ lastCall' = op
    /\ UNCHANGED runVars

addNode(type) ==
    /\ nodeIdCounter' = nodeIdCounter + 1
    /\ Edited(NoCall,
              Append(nodes, [id |-> NodeId(type, nodeIdCounter + 1), type |-> type,
                             data |-> createDefaultNodeData(type),
                             groupId |-> Undefined, selected |-> FALSE]),
              edges)
    /\ createdIds' = Append(createdIds, NodeId(type, nodeIdCounter + 1))
    /\ UNCHANGED <<groups, clipboard, groupIdCounter, restoredIds>>
    /\ hasUnsavedChanges' = TRUE

\* a removal that leaves the edges alone
removeNodeKeepsEdges(nodeId) ==
    /\ Edited([op |-> "removeNode", rejected |-> FALSE, nodeId |-> nodeId,
               incident |-> Len(SelectSeq(edges, LAMBDA e :
                                e.source = nodeId \/ e.target = nodeId)),
               groupId |-> getNodeById(nodes, nodeId).groupId],
              SelectSeq(nodes, LAMBDA n : n.id # nodeId),
              edges)
    /\ UNCHANGED <<groups, clipboard, nodeIdCounter, groupIdCounter,
                   createdIds, restoredIds>>
    /\ hasUnsavedChanges' = TRUE

\* lastCall also records what the removed node was attached to
removeNode(nodeId) ==
    /\ Edited([op |-> "removeNode", rejected |-> FALSE, nodeId |-> nodeId,
               incident |-> Len(SelectSeq(edges, LAMBDA e :
                                e.source = nodeId \/ e.target = nodeId)),
               groupId |-> getNodeById(nodes, nodeId).groupId],
              SelectSeq(nodes, LAMBDA n : n.id # nodeId),
              SelectSeq(edges, LAMBDA e : e.source # nodeId /\ e.target # nodeId))
    /\ UNCHANGED <<groups, clipboard, nodeIdCounter, groupIdCounter,
                   createdIds, restoredIds>>
    /\ hasUnsavedChanges' = TRUE

\* onNodesChange([{ type: "remove", id }]): applyNodeChanges drops the node
onNodesChangeRemove(nodeId) ==
    /\ Edited(NoCall, SelectSeq(nodes, LAMBDA n : n.id # nodeId), edges)
    /\ UNCHANGED <<groups, clipboard, nodeIdCounter, groupIdCounter,
                   createdIds, restoredIds>>
    /\ hasUnsavedChanges' = TRUE

\* onNodesChange([{ type: "select", id, selected }])
onNodesChangeSelect(nodeId, selected) ==
    /\ Edited(NoCall,
              [k \in 1..Len(nodes) |->
                  IF nodes[k].id = nodeId
                  THEN [nodes[k] EXCEPT !.selected = selected] ELSE nodes[k]],
              edges)
    /\ UNCHANGED <<groups, clipboard, nodeIdCounter, groupIdCounter,
                   createdIds, restoredIds>>
    /\ UNCHANGED hasUnsavedChanges

\* addEdge of the flow library: no edge without endpoints, no second edge
\* for the same connection
addEdge(edge, es) ==
    IF ~Truthy(edge.source) \/ ~Truthy(edge.target) THEN es
    ELSE IF \E k \in 1..Len(es) :
               /\ es[k].source = edge.source /\ es[k].target = edge.target
               /\ es[k].targetHandle = edge.targetHandle
    THEN es
    ELSE Append(es, edge)

onConnect(source, target, targetHandle) ==
    /\ Edited(NoCall, nodes, addEdge(Edge(source, target, targetHandle), edges))
    /\ UNCHANGED <<groups, clipboard, nodeIdCounter, groupIdCounter,
                   createdIds, restoredIds>>
    /\ hasUnsavedChanges' = TRUE

addEdgeWithType(source, target, targetHandle, edgeType) ==
    /\ Edited(NoCall, nodes,
              addEdge([Edge(source, target, targetHandle) EXCEPT !.type = edgeType],
                      edges))
    /\ UNCHANGED <<groups, clipboard, nodeIdCounter, groupIdCounter,
                   createdIds, restoredIds>>
    /\ hasUnsavedChanges' = TRUE

removeEdge(edgeId) ==
    /\ Edited(NoCall, nodes, SelectSeq(edges, LAMBDA e : e.id # edgeId))
    /\ UNCHANGED <<groups, clipboard, nodeIdCounter, groupIdCounter,
                   createdIds, restoredIds>>
    /\ hasUnsavedChanges' = TRUE

copySelectedNodes ==
    LET selectedNodes == SelectSeq(nodes, LAMBDA n : n.selected)
        selectedNodeIds == Ids(selectedNodes)
        connectedEdges == SelectSeq(edges, LAMBDA e :
                              e.source \in selectedNodeIds
                              /\ e.target \in selectedNodeIds)
    IN /\ editsLeft > 0
       /\ editsLeft' = editsLeft - 1
       /\ clipboard' = IF selectedNodes = <<>> THEN clipboard
                       ELSE [isNull |-> FALSE, nodes |-> selectedNodes,
                             edges |-> connectedEdges]
       /\ lastCall' = NoCall
       /\ UNCHANGED <<nodes, edges, groups, nodeIdCounter, groupIdCounter,
                      createdIds, restoredIds>>
       /\ UNCHANGED runVars
       /\ UNCHANGED hasUnsavedChanges

pasteNodes ==
    LET count == Len(clipboard.nodes)
        \* idMapping: the k-th clipboard node gets the k-th new id
        newId(k) == NodeId(clipboard.nodes[k].type, nodeIdCounter + k)
        idMapping(old) ==
            newId(CHOOSE k \in 1..count : clipboard.nodes[k].id = old)
        newNodes == [k \in 1..count |->
                        [clipboard.nodes[k] EXCEPT !.id = newId(k),
                                                   !.selected = TRUE]]
        newEdges == [k \in 1..Len(clipboard.edges) |->
                        LET edge == clipboard.edges[k]
                        IN [edge EXCEPT
                              !.id = <<"edge", idMapping(edge.source),
                                       idMapping(edge.target), "default",
                                       OrElse(edge.targetHandle, "default")>>,
                              !.source = idMapping(edge.source),
                              !.target = idMapping(edge.target)]]
        updatedNodes == [k \in 1..Len(nodes) |->
                            [nodes[k] EXCEPT !.selected = FALSE]]
    IN /\ editsLeft > 0
       /\ editsLeft' = editsLeft - 1
       /\ IF clipboard.isNull \/ count = 0
          THEN UNCHANGED <<nodes, edges, nodeIdCounter, createdIds,
                           hasUnsavedChanges>>
          ELSE /\ hasUnsavedChanges' = TRUE
               /\ nodes' = updatedNodes \o newNodes
               /\ edges' = edges \o newEdges
               /\ nodeIdCounter' = nodeIdCounter + count
               /\ createdIds' = createdIds \o [k \in 1..count |-> newId(k)]
       /\ lastCall' = NoCall
       /\ UNCHANGED <<groups, clipboard, groupIdCounter, restoredIds>>
       /\ UNCHANGED runVars

\* createGroup(nodeIds); the group's colour and geometry are left out
createGroup(nodeIds) ==
    LET nodesToGroup == SelectSeq(nodes, LAMBDA n : n.id \in nodeIds)
        id == GroupId(groupIdCounter + 1)
    IN /\ editsLeft > 0
       /\ editsLeft' = editsLeft - 1
       /\ IF nodeIds = {} \/ nodesToGroup = <<>>
          THEN UNCHANGED <<nodes, groups, groupIdCounter, hasUnsavedChanges>>
          ELSE /\ hasUnsavedChanges' = TRUE
               /\ nodes' = [k \in 1..Len(nodes) |->
                               IF nodes[k].id \in nodeIds
                               THEN [nodes[k] EXCEPT !.groupId = id]
                               ELSE nodes[k]]
               /\ groups' = [g \in DOMAIN groups \cup {id} |->
                                IF g = id
                                THEN [id |-> id,
                                      name |-> Cardinality(DOMAIN groups) + 1]
                                ELSE groups[g]]
               /\ groupIdCounter' = groupIdCounter + 1
       /\ lastCall' = NoCall
       /\ UNCHANGED <<edges, clipboard, nodeIdCounter, createdIds, restoredIds>>
       /\ UNCHANGED runVars

\* a deletion that leaves the members' groupId in place
deleteGroupKeepsMembers(groupId) ==
    /\ editsLeft > 0
    /\ editsLeft' = editsLeft - 1
    /\ groups' = [g \in DOMAIN groups \ {groupId} |-> groups[g]]
    /\ lastCall' = [op |-> "deleteGroup", rejected |-> FALSE, groupId |-> groupId]
    /\ UNCHANGED <<nodes, edges, clipboard, nodeIdCounter, groupIdCounter,
                   createdIds, restoredIds>>
    /\ UNCHANGED runVars
    /\ hasUnsavedChanges' = TRUE

\* lastCall also records which group was deleted
deleteGroup(groupId) ==
    /\ editsLeft > 0
    /\ editsLeft' = editsLeft - 1
    /\ nodes' = [k \in 1..Len(nodes) |->
                    IF nodes[k].groupId = groupId
                    THEN [nodes[k] EXCEPT !.groupId = Undefined]
                    ELSE nodes[k]]
    /\ groups' = [g \in DOMAIN groups \ {groupId} |-> groups[g]]
    /\ lastCall' = [op |-> "deleteGroup", rejected |-> FALSE, groupId |-> groupId]
    /\ UNCHANGED <<edges, clipboard, nodeIdCounter, groupIdCounter,
                   createdIds, restoredIds>>
    /\ UNCHANGED runVars
    /\ hasUnsavedChanges' = TRUE

addNodesToGroup(nodeIds, groupId) ==
    /\ Edited(NoCall,
              [k \in 1..Len(nodes) |->
                  IF nodes[k].id \in nodeIds
                  THEN [nodes[k] EXCEPT !.groupId = groupId] ELSE nodes[k]],
              edges)
    /\ UNCHANGED <<groups, clipboard, nodeIdCounter, groupIdCounter,
                   createdIds, restoredIds>>
    /\ hasUnsavedChanges' = TRUE

removeNodesFromGroup(nodeIds) ==
    /\ Edited(NoCall,
              [k \in 1..Len(nodes) |->
                  IF nodes[k].id \in nodeIds
                  THEN [nodes[k] EXCEPT !.groupId = Undefined] ELSE nodes[k]],
              edges)
    /\ UNCHANGED <<groups, clipboard, nodeIdCounter, groupIdCounter,
                   createdIds, restoredIds>>
    /\ hasUnsavedChanges' = TRUE

setNodeGroupId(nodeId, groupId) ==
    /\ Edited(NoCall,
              [k \in 1..Len(nodes) |->
                  IF nodes[k].id = nodeId
                  THEN [nodes[k] EXCEPT !.groupId = groupId] ELSE nodes[k]],
              edges)
    /\ UNCHANGED <<groups, clipboard, nodeIdCounter, groupIdCounter,
                   createdIds, restoredIds>>
    /\ hasUnsavedChanges' = TRUE

\* the largest number an id of a workflow document ends with
MaxSuffix == 9

\* what an id may have before its "-<number>" ending
IdPrefixes ==
    {"imageInput", "annotation", "prompt", "universalGenerator", "splitGrid",
     "output", "group"}

\* id.match(/-(\d+)$/) with parseInt(match[1], 10): <<number>>, or <<>> when
\* the id does not end with "-" and digits
MatchSuffix(id) ==
    LET found == {n \in 0..MaxSuffix :
                     \E prefix \in IdPrefixes : id = prefix \o "-" \o ToString(n)}
    IN IF found = {} THEN <<>> ELSE <<CHOOSE n \in found : TRUE>>

RECURSIVE ReduceMax(_, _)
\* ids.reduce((max, id) => match ? Math.max(max, number) : max, max)
ReduceMax(ids, max) ==
    IF ids = <<>> THEN max
    ELSE LET match == MatchSuffix(Head(ids))
         IN ReduceMax(Tail(ids),
                      IF match # <<>> /\ match[1] > max THEN match[1] ELSE max)

\* a counter that starts again from zero whatever the document holds
MaxNodeIdZero(workflowNodes) == 0

\* const maxNodeId = workflow.nodes.reduce(..., 0)
MaxNodeId(workflowNodes) ==
    ReduceMax([k \in 1..Len(workflowNodes) |-> workflowNodes[k].id], 0)

RECURSIVE SetToSeq(_)
\* Object.keys(workflow.groups || {})
SetToSeq(set) ==
    IF set = {} THEN <<>>
    ELSE LET x == CHOOSE y \in set : TRUE
         IN <<x>> \o SetToSeq(set \ {x})

\* const maxGroupId = Object.keys(workflow.groups || {}).reduce(..., 0)
MaxGroupId(workflowGroups) == ReduceMax(SetToSeq(DOMAIN workflowGroups), 0)

\* loadSaveConfigs()[id]: what localStorage holds for a workflow id; no
\* workflow has been saved from this browser, and a document without an id
\* is not looked up
SavedConfig(id) == [directoryPath |-> Undefined]

loadWorkflow(workflow) ==
    /\ editsLeft > 0
    /\ editsLeft' = editsLeft - 1
    /\ nodeIdCounter' = MaxNodeId(workflow.nodes)
    /\ groupIdCounter' = MaxGroupId(workflow.groups)
    /\ nodes' = workflow.nodes
    /\ edges' = workflow.edges
    /\ groups' = workflow.groups
    /\ isRunning' = FALSE
    /\ currentNodeId' = Null
    /\ restoredIds' = Ids(workflow.nodes)
    /\ lastCall' = NoCall
    /\ workflowId' = Coalesce(workflow.id, Null)
    /\ workflowName' = workflow.name
    /\ saveDirectoryPath' = Coalesce(SavedConfig(workflow.id).directoryPath, Null)
    /\ hasUnsavedChanges' = FALSE
    /\ UNCHANGED <<isSaving, autoSaveEnabled, fileSaves, written, ticksLeft>>
    /\ UNCHANGED <<clipboard, createdIds, pausedAtNodeId, globalImageHistory, saves, userEdits,
                   acts, jobPending, mayFail, callsLeft, togglesLeft>>

clearWorkflow ==
    /\ editsLeft > 0
    /\ editsLeft' = editsLeft - 1
    /\ nodes' = <<>>
    /\ edges' = <<>>
    /\ groups' = NoGroups
    /\ isRunning' = FALSE
    /\ currentNodeId' = Null
    /\ lastCall' = NoCall
    /\ workflowId' = Null
    /\ workflowName' = Null
    /\ saveDirectoryPath' = Null
    /\ hasUnsavedChanges' = FALSE
    /\ UNCHANGED <<isSaving, autoSaveEnabled, fileSaves, written, ticksLeft>>
    /\ UNCHANGED <<clipboard, nodeIdCounter, groupIdCounter, createdIds,
                   restoredIds, pausedAtNodeId, globalImageHistory, saves, userEdits,
                   acts, jobPending, mayFail, callsLeft, togglesLeft>>

\* The store after addNode x3, onConnect x2, createGroup of the first two
\* nodes and a click on the first node
ChainStore ==
    [nodes |-> <<[Node("imageInput-1", "imageInput", [image |-> "imgA"])
                     EXCEPT !.groupId = "group-1", !.selected = TRUE],
                 [Node("annotation-2", "annotation", [outputImage |-> Null])
                     EXCEPT !.groupId = "group-1"],
                 Node("output-3", "output", [image |-> Null])>>,
     edges |-> <<Edge("imageInput-1", "annotation-2", "image"),
                 Edge("annotation-2", "output-3", "image")>>,
     groups |-> [g \in {"group-1"} |-> [id |-> g, name |-> 1]],
     groupIdCounter |-> 1]

\* The workflow documents the user opens: an empty one, one saved after the
\* first addNode, one with larger numbers and a group, and one with a node
\* id that does not end with a number
WorkflowFiles ==
    {[nodes |-> <<>>, edges |-> <<>>, groups |-> NoGroups, id |-> Undefined, name |-> "untitled"],
     [nodes |-> <<Node("imageInput-1", "imageInput", [image |-> "imgA"])>>,
      edges |-> <<>>, groups |-> NoGroups, id |-> Undefined, name |-> "untitled"],
     [nodes |-> <<[Node("imageInput-2", "imageInput", [image |-> "imgB"])
                      EXCEPT !.groupId = "group-3"],
                  Node("output-5", "output", [image |-> Null])>>,
      edges |-> <<Edge("imageInput-2", "output-5", "image")>>,
      groups |-> [g \in {"group-3"} |-> [id |-> g, name |-> 1]],
      id |-> Undefined, name |-> "untitled"],
     [nodes |-> <<Node("start", "imageInput", [image |-> "imgA"]),
                  Node("output-2", "output", [image |-> Null])>>,
      edges |-> <<Edge("start", "output-2", "image")>>,
      groups |-> NoGroups, id |-> Undefined, name |-> "untitled"]}

\* create<WorkflowStore>: the empty store
EmptyStore ==
    [nodes |-> <<>>, edges |-> <<>>, groups |-> NoGroups, groupIdCounter |-> 0]

\* The editor opens on the empty store or on the chain
InitEdit ==
    /\ \E w \in {EmptyStore, ChainStore} :
          /\ nodes = w.nodes /\ edges = w.edges /\ groups = w.groups
          /\ nodeIdCounter = Len(w.nodes)
          /\ groupIdCounter = w.groupIdCounter
          /\ createdIds = [k \in 1..Len(w.nodes) |-> w.nodes[k].id]
    /\ restoredIds = {}
    /\ clipboard = NoClipboard
    /\ isRunning = FALSE /\ currentNodeId = Null /\ pausedAtNodeId = Null
    /\ globalImageHistory = <<>> /\ acts = <<>> /\ lastCall = NoCall
    /\ saves = <<>> /\ userEdits = <<>>
    /\ hasUnsavedChanges = (nodes # <<>>) /\ isSaving = FALSE /\ workflowId = Null
    /\ workflowName = Null /\ saveDirectoryPath = Null /\ autoSaveEnabled = TRUE
    /\ fileSaves = <<>> /\ written = NoDocument /\ ticksLeft = 0
    /\ jobPending = 0 /\ mayFail = FALSE /\ callsLeft = 0 /\ togglesLeft = 0
    /\ editsLeft = MaxEdits

NextEdit ==
    \/ \E type \in EditTypes : addNode(type)
    \/ \E n \in Ids(nodes) : removeNode(n)
    \/ \E n \in Ids(nodes) : onNodesChangeRemove(n)
    \/ \E n \in Ids(nodes) : \E selected \in BOOLEAN : onNodesChangeSelect(n, selected)
    \/ \E source, target \in Ids(nodes) :
          source # target /\ onConnect(source, target, "image")
    \/ \E source, target \in Ids(nodes) :
          source # target /\ addEdgeWithType(source, target, "image", "curved")
    \/ \E k \in 1..Len(edges) : removeEdge(edges[k].id)
    \/ copySelectedNodes
    \/ pasteNodes
    \/ \E nodeIds \in SUBSET Ids(nodes) : createGroup(nodeIds)
    \/ \E g \in DOMAIN groups \cup {"group-9"} : deleteGroup(g)
    \/ \E workflow \in WorkflowFiles : loadWorkflow(workflow)
    \/ clearWorkflow

SpecEdit == InitEdit /\ [][NextEdit]_vars

----------------------------------------------------------------------------
(* The engine together with the editor removing a node, opening a document *)
(* or clearing the store, before, between and during calls                 *)

\* how many of these editing operations are called in one behaviour
MaxPauseEdits == 1

InitPause ==
    /\ \E w \in Workflows : InitStore(w)
    /\ jobPending = MaxPending /\ mayFail = FALSE
    /\ callsLeft = MaxCalls /\ togglesLeft = 0
    /\ editsLeft = MaxPauseEdits

NextPause ==
    \/ \E s \in StartChoices : executeWorkflow(s)
    \/ \E n \in Ids(nodes) : regenerateNode(n)
    \/ stopWorkflow
    \/ Settles
    \/ \E n \in Ids(nodes) : removeNode(n)
    \/ \E workflow \in WorkflowFiles : loadWorkflow(workflow)
    \/ clearWorkflow

SpecPause == InitPause /\ [][NextPause]_vars

----------------------------------------------------------------------------
(* Grouping: the group operations, the clipboard and removeNode on the     *)
(* chain, whose first two nodes are grouped and whose first is selected    *)

\* how many of these operations are called in one behaviour
MaxGroupEdits == 3

InitGroup ==
    /\ nodes = ChainStore.nodes /\ edges = ChainStore.edges
    /\ groups = ChainStore.groups
    /\ nodeIdCounter = Len(ChainStore.nodes)
    /\ groupIdCounter = ChainStore.groupIdCounter
    /\ createdIds = [k \in 1..Len(ChainStore.nodes) |-> ChainStore.nodes[k].id]
    /\ restoredIds = {}
    /\ clipboard = NoClipboard
    /\ isRunning = FALSE /\ currentNodeId = Null /\ pausedAtNodeId = Null
    /\ globalImageHistory = <<>> /\ acts = <<>> /\ lastCall = NoCall
    /\ saves = <<>> /\ userEdits = <<>>
    /\ hasUnsavedChanges = (nodes # <<>>) /\ isSaving = FALSE /\ workflowId = Null
    /\ workflowName = Null /\ saveDirectoryPath = Null /\ autoSaveEnabled = TRUE
    /\ fileSaves = <<>> /\ written = NoDocument /\ ticksLeft = 0
    /\ jobPending = 0 /\ mayFail = FALSE /\ callsLeft = 0 /\ togglesLeft = 0
    /\ editsLeft = MaxGroupEdits

NextGroup ==
    \/ \E nodeIds \in SUBSET Ids(nodes) : createGroup(nodeIds)
    \/ \E g \in DOMAIN groups : deleteGroup(g)
    \/ \E nodeIds \in SUBSET Ids(nodes) : \E g \in DOMAIN groups :
          addNodesToGroup(nodeIds, g)
    \/ \E nodeIds \in SUBSET Ids(nodes) : removeNodesFromGroup(nodeIds)
    \/ \E n \in Ids(nodes) : \E g \in DOMAIN groups \cup {Undefined} :
          setNodeGroupId(n, g)
    \/ copySelectedNodes
    \/ pasteNodes
    \/ \E n \in Ids(nodes) : removeNode(n)

SpecGroup == InitGroup /\ [][NextGroup]_vars

----------------------------------------------------------------------------
(* The request builder on every small generator configuration: the options *)
(* the node's controls write with updateNodeData, absent, cleared ("", 0)  *)
(* or set                                                                  *)

Configs ==
    [model : {ImagenModel, GeminiModel},
     aspectRatio : {Undefined, "", "1:1"},
     safetySetting : {Undefined, "", "block_some"},
     upscaleFactor : {Undefined, "", "x2"},
     sampleImageSize : {Undefined, "1K"},
     seed : {<<>>, <<0>>, <<7>>},
     addWatermark : {<<>>, <<FALSE>>, <<TRUE>>}]

\* GenerateWorkflow after the user set the generator's options
ConfiguredWorkflow(config) ==
    LET w == GenerateWorkflow("a cat")
    IN [w EXCEPT !.nodes = updateNodeData(@, "universalGenerator-2", config)]

\* GenerateWorkflow after a run stored the inputs it used in the generator
\* and the user then changed what is connected: the image of the image
\* input, the text of the prompt node, and whether the prompt is connected
StoredWorkflow(image, prompt, hasTextEdge, inputImages, inputPrompt) ==
    LET w == GenerateWorkflow(prompt)
    IN [nodes |-> updateNodeData(
                      updateNodeData(w.nodes, "imageInput-3", [image |-> image]),
                      "universalGenerator-2",
                      [inputImages |-> inputImages, inputPrompt |-> inputPrompt]),
        edges |-> IF hasTextEdge THEN w.edges
                  ELSE Filter(w.edges, LAMBDA e : e.targetHandle # "text")]

StoredWorkflows ==
    {StoredWorkflow(image, prompt, hasTextEdge, inputImages, inputPrompt) :
        image \in {Null, "imgA"}, prompt \in {"", "a cat"},
        hasTextEdge \in BOOLEAN, inputImages \in {<<>>, <<"imgOld">>},
        inputPrompt \in {Null, "", "an old cat"}}

InitBuild ==
    /\ \/ \E config \in Configs : InitStore(ConfiguredWorkflow(config))
       \/ \E w \in StoredWorkflows : InitStore(w)
    /\ jobPending = 0 /\ mayFail = FALSE /\ callsLeft = 1 /\ togglesLeft = 0
    /\ editsLeft = 0

NextBuild ==
    \/ executeWorkflow(Undefined)
    \/ regenerateNode("universalGenerator-2")

SpecBuild == InitBuild /\ [][NextBuild]_vars

----------------------------------------------------------------------------
(* Properties *)

Range(q) == {q[k] : k \in 1..Len(q)}

\* The activations that return in this step
Returned == {act \in Range(acts') : act.pc = "done"} \ Range(acts)

\* The step is an accepted executeWorkflow call
RunCall ==
    /\ callsLeft' = callsLeft - 1
    /\ Len(acts') > 0
    /\ acts'[Len(acts')].kind = "run"

\* The targets of the edges that leave a set of ids
Successors(es, from) ==
    {es[k].target : k \in {j \in 1..Len(es) : es[j].source \in from}}

RECURSIVE ReachableIn(_, _, _)
ReachableIn(es, from, steps) ==
    IF steps = 0 THEN from
    ELSE ReachableIn(es, from \cup Successors(es, from), steps - 1)

\* Some node lies on a cycle of edges
HasCycle(ns, es) ==
    \E id \in Ids(ns) :
        id \in ReachableIn(es, Successors(es, {id}), Len(ns) + Len(es))

PositionIn(sorted, id) == FindIndex(sorted, LAMBDA n : n.id = id)

\* C1: for every acyclic graph, the order executeWorkflow computes holds each
\* node of the store exactly once, and every node comes after all the nodes
\* that have an edge into it.
C1_OrderIsTopological ==
    \A act \in Range(acts) :
        act.kind = "run" /\ ~HasCycle(nodes, act.edges) =>
            /\ ~act.thrownCycle
            /\ Len(act.sorted) = Len(nodes)
            /\ \A id \in Ids(nodes) :
                 Cardinality({k \in 1..Len(act.sorted) : act.sorted[k].id = id}) = 1
            /\ \A k \in 1..Len(act.edges) :
                 PositionIn(act.sorted, act.edges[k].source)
                     < PositionIn(act.sorted, act.edges[k].target)

\* An acyclic graph of three nodes whose order differs from the store's order
C1_Witness ==
    \E act \in Range(acts) :
        /\ act.kind = "run" /\ ~HasCycle(nodes, act.edges)
        /\ Len(act.sorted) = 3 /\ Len(act.edges) >= 2
        /\ act.sorted[1].id # nodes[1].id

\* C2: on every graph with a cycle, executeWorkflow throws the cycle fault
\* before any node executes: no node changes, and the controller ends idle.
C2_CycleAbortsRun ==
    [][RunCall /\ HasCycle(nodes, edges) =>
          LET act == acts'[Len(acts')]
          IN /\ act.thrownCycle /\ act.outcome = "cycle"
             /\ act.executed = <<>>
             /\ nodes' = nodes
             /\ isRunning' = FALSE /\ currentNodeId' = Null]_vars

\* A run over a cycle of two or more nodes has thrown
C2_Witness ==
    \E act \in Range(acts) :
        /\ act.thrownCycle /\ act.outcome = "cycle"
        /\ \A k \in 1..Len(edges) : edges[k].source # edges[k].target
        /\ ~isRunning

\* C3: a call of executeWorkflow or regenerateNode made while isRunning is
\* true starts nothing and changes no node, no edge, no controller field and
\* sends no request.
C3_CallWhileRunningIsNoOp ==
    [][/\ isRunning => callsLeft' = callsLeft /\ Len(Live(acts')) <= Len(Live(acts))
       /\ lastCall'.rejected =>
            /\ isRunning
            /\ UNCHANGED <<nodes, edges, isRunning, currentNodeId, pausedAtNodeId,
                           globalImageHistory, saves, userEdits, acts>>]_vars

\* A call was rejected while an activation is suspended at its request
C3_Witness ==
    /\ lastCall.rejected /\ isRunning
    /\ \E act \in Range(acts) : act.pc = "fetch"

\* C4: at most one run / regenerate activation is in progress at any time.
\* (refuted: stopWorkflow clears isRunning while an activation is suspended,
\* and the next call starts a second one)
C4_AtMostOneActivation == Len(Live(acts)) <= 1

\* C5: a run never enters a node that has an incoming hasPause edge in the
\* store, unless the run resumed exactly at that node.
\* (refuted: the run checks the edges it read when it started)
C5_PauseStopsRun ==
    \A act \in Range(acts) :
        act.kind = "run" =>
            \A k \in 1..Len(act.executed) :
                act.executed[k].storePause =>
                    act.isResuming /\ act.executed[k].id = act.startFromNodeId

\* C6: a run that resumes at the paused node enters that node first, and
\* enters no later node that has an incoming hasPause edge in the store.
\* (refuted for the same reason as C5)
C6_ResumeSkipsOnlyResumedNode ==
    \A act \in Range(acts) :
        /\ act.kind = "run" /\ act.isResuming /\ ~act.thrownCycle
        /\ PositionIn(act.sorted, act.startFromNodeId) # 0
        => /\ Len(act.executed) >= 1
           /\ act.executed[1].id = act.startFromNodeId
           /\ \A k \in 2..Len(act.executed) : ~act.executed[k].storePause

\* C7: every fatal failure of a full run marks the offending node as error
\* with a non-empty message, enters no further node, leaves the controller
\* idle, and the returned activation sends nothing and enters nothing again.
C7_FatalErrorHaltsRun ==
    [][/\ \A act \in Returned :
            act.kind = "run" /\ act.outcome = "error" =>
                LET node == getNodeById(nodes', act.errorNode)
                IN /\ node.data.status = "error"
                   /\ Truthy(node.data.error)
                   /\ act.executed[Len(act.executed)].id = act.errorNode
                   /\ isRunning' = FALSE /\ currentNodeId' = Null
       /\ \A old \in Range(acts) : \A new \in Range(acts') :
            old.pc = "done" /\ new.call = old.call => new = old]_vars

\* A run has failed with the job timeout after the last allowed poll
C7_Witness ==
    \E act \in Range(acts) :
        /\ act.kind = "run" /\ act.outcome = "error"
        /\ act.attempts = MaxPollAttempts /\ act.polls = MaxPollAttempts
        /\ getNodeById(nodes, act.errorNode).data.error = "Video generation timed out"
        /\ ~isRunning

\* C8: the error write of a failing run changes only the status and error
\* fields of the offending node: every other node, and every other field,
\* keeps the value it had just before.
C8_ErrorKeepsEarlierResults ==
    [][\A act \in Returned :
          act.kind = "run" /\ act.outcome = "error" =>
              /\ Len(nodes') = Len(act.nodesBefore)
              /\ \A k \in 1..Len(nodes') :
                   IF nodes'[k].id = act.errorNode
                   THEN nodes'[k] = [act.nodesBefore[k] EXCEPT
                                        !.data.status = "error",
                                        !.data.error = nodes'[k].data.error]
                   ELSE nodes'[k] = act.nodesBefore[k]]_vars

\* A run failed at its fourth node after the splitter completed and filled
\* its child input
C8_Witness ==
    \E act \in Range(acts) :
        /\ act.kind = "run" /\ act.outcome = "error" /\ Len(act.executed) = 4
        /\ getNodeById(nodes, "splitGrid-2").data.status = "complete"
        /\ getNodeById(nodes, "imageInput-3").data.image = "tile1"
        /\ getNodeById(nodes, act.errorNode).data.status = "error"

\* C9: a full run that met no pause, no fatal error and no stop request has
\* entered every node of the order up to the last one when it returns.
\* (refuted: the generator case returns after a successful generation)
C9_RunExecutesWholeOrder ==
    \A act \in Range(acts) :
        /\ act.kind = "run" /\ act.pc = "done" /\ ~act.stopRequested
        /\ act.outcome \notin {"paused", "error", "stopped", "cycle"}
        /\ act.sorted # <<>>
        => /\ act.executed # <<>>
           /\ act.executed[Len(act.executed)].id = act.sorted[Len(act.sorted)].id

\* C10: a node that is entered resolves, for every generator with an image
\* edge into it, the result that generator has written.
\* (refuted: the run writes output and image, getConnectedInputs reads
\* outputImage)
C10_InputsAreWrittenResults ==
    \A act \in Range(acts) :
        \A k \in 1..Len(act.executed) :
            act.executed[k].written \subseteq Range(act.executed[k].images)

\* C11: a stopWorkflow call leaves the controller idle, and a run that was
\* in progress when stopWorkflow was called enters no further node, whatever
\* is called in between.
\* (refuted: a call made after the stop sets isRunning again, and the stopped
\* run reads it at its next node boundary)
C11_StopEndsRun ==
    [][\A old \in Range(acts) : \A new \in Range(acts') :
          new.call = old.call /\ new.kind = "run" =>
              /\ new.stopRequested /\ ~old.stopRequested =>
                    isRunning' = FALSE /\ currentNodeId' = Null
              /\ old.stopRequested => Len(new.executed) = Len(old.executed)]_vars

\* The save requests an activation has sent, in the order sent
SaveUrls(act) ==
    LET sent == SelectSeq(act.requests, LAMBDA r : r.kind = "save")
    IN [k \in 1..Len(sent) |-> sent[k].url]

\* The field a call writes its primary result to
PrimaryResult(act, ns) ==
    IF act.kind = "run" THEN getNodeById(ns, act.node.id).data.output
    ELSE getNodeById(ns, act.node.id).data.outputImage

\* C12: a call that returns on a poll answering done with artifacts and no
\* error returns successfully, on poll k+1 after k pending polls for some k
\* below the ceiling: the first artifact is the node's primary result, the
\* status is a success status, and the save requests carry all artifacts in
\* the reported order. A call never gives up on a pending job below the ceiling.
C12_JobCompletesOnFirstDonePoll ==
    [][\A act \in Returned :
          LET p == act.lastPoll
          IN /\ act.polls >= 1 /\ ~p.thrown /\ p.ok /\ p.done /\ p.error = Null
                /\ Len(p.medias) > 0
                => /\ act.outcome = "generated"
                   /\ act.polls = act.attempts + 1
                   /\ act.attempts < MaxPollAttempts
                   /\ PrimaryResult(act, nodes') = p.medias[1]
                   /\ getNodeById(nodes', act.node.id).data.status
                          \in {"success", "complete"}
                   /\ SaveUrls(act) = p.medias
             /\ act.polls >= 1 /\ ~p.thrown /\ ~(p.ok /\ p.done)
                => act.attempts = MaxPollAttempts]_vars

\* A run completed with two artifacts on the last poll the ceiling allows
C12_Witness ==
    \E act \in Range(acts) :
        /\ act.kind = "run" /\ act.outcome = "generated"
        /\ act.polls = MaxPollAttempts /\ act.attempts = MaxPollAttempts - 1
        /\ act.lastPoll.medias = <<"vid1", "vid2">>
        /\ getNodeById(nodes, act.node.id).data.output = "vid1"
        /\ SaveUrls(act) = <<"vid1", "vid2">>

\* C13: no job is polled more than 120 times, and a call that returns on a
\* poll that did not answer done has polled exactly 120 times and has failed
\* as a request does: the node has status error and the timeout message, and
\* the controller is idle.
C13_NeverDoneJobTimesOut ==
    [][/\ \A act \in Range(acts') : act.polls <= MaxPollAttempts
       /\ \A act \in Returned :
            LET p == act.lastPoll
                node == getNodeById(nodes', act.node.id)
            IN act.polls >= 1 /\ ~p.thrown /\ ~(p.ok /\ p.done)
               => /\ act.polls = MaxPollAttempts
                  /\ act.outcome = "error"
                  /\ node.data.status = "error"
                  /\ node.data.error = "Video generation timed out"
                  /\ isRunning' = FALSE /\ currentNodeId' = Null]_vars

\* A regeneration gave up after 120 polls of a job that never answered done
C13_Witness ==
    \E act \in Range(acts) :
        /\ act.kind = "regenerate" /\ act.outcome = "error"
        /\ act.polls = MaxPollAttempts /\ ~act.lastPoll.done
        /\ getNodeById(nodes, act.node.id).data.status = "error"
        /\ getNodeById(nodes, act.node.id).data.error = "Video generation timed out"
        /\ ~isRunning

\* C14: a call that reads a poll answering done with an error returns at
\* that poll: the node gets status error and the job's error message, nothing
\* else in the store's nodes changes (no result is written), and the
\* controller is idle.
C14_JobErrorStopsPolling ==
    [][\A act \in Returned :
          LET p == act.lastPoll
          IN act.polls >= 1 /\ ~p.thrown /\ p.ok /\ p.done /\ Truthy(p.error)
             => /\ act.outcome = "error"
                /\ act.polls = act.attempts + 1
                /\ Len(nodes') = Len(nodes)
                /\ \A k \in 1..Len(nodes) :
                     nodes'[k] = IF nodes[k].id = act.node.id
                                 THEN [nodes[k] EXCEPT !.data.status = "error",
                                                       !.data.error = p.error]
                                 ELSE nodes[k]
                /\ isRunning' = FALSE /\ currentNodeId' = Null]_vars

\* A run's job ended with an error on its second poll
C14_Witness ==
    \E act \in Range(acts) :
        /\ act.kind = "run" /\ act.outcome = "error" /\ act.polls = 2
        /\ act.lastPoll.done /\ act.lastPoll.error = "Operation failed upstream"
        /\ getNodeById(nodes, act.node.id).data.error = "Operation failed upstream"
        /\ getNodeById(nodes, act.node.id).data.status = "error"
        /\ getNodeById(nodes, act.node.id).data.output = Null
        /\ ~isRunning

\* The generate requests sent so far, each with the options of the node
\* record it was built from
BuiltRequests ==
    UNION {{[request |-> act.requests[k], config |-> act.node.data] :
                k \in {j \in 1..Len(act.requests) :
                            act.requests[j].kind = "generate"}} :
           act \in Range(acts)}

\* C15: a request for a model whose identifier contains "imagen" carries a
\* safetySetting, the configured one or else the default; a request for any
\* other model carries none.
\* (refuted: regenerateNode sends the options as configured, and the run
\* removes only a non-empty safetySetting)
C15_SafetySettingFollowsModel ==
    \A b \in BuiltRequests :
        IF Includes(b.request.model, "imagen")
        THEN b.request.safetySetting =
                 (IF Truthy(b.config.safetySetting) THEN b.config.safetySetting
                  ELSE "block_few")
        ELSE b.request.safetySetting = Undefined

\* C16: a request for a model whose identifier does not contain "imagen"
\* carries no aspectRatio; a request for an Imagen model with a configured
\* aspectRatio and no upscaleFactor carries that aspectRatio.
\* (refuted: regenerateNode sends the options as configured, and the run
\* removes only a non-empty aspectRatio)
C16_AspectRatioFollowsModel ==
    \A b \in BuiltRequests :
        IF ~Includes(b.request.model, "imagen")
        THEN b.request.aspectRatio = Undefined
        ELSE Truthy(b.config.aspectRatio) /\ ~Truthy(b.config.upscaleFactor)
             => b.request.aspectRatio = b.config.aspectRatio

\* C17: a request built from a configuration with an upscaleFactor carries
\* upscaleConfig with that factor and mode "upscale", and no top-level
\* upscaleFactor, aspectRatio or sampleImageSize.
\* (refuted: regenerateNode sends the options as configured)
C17_UpscaleIsNested ==
    \A b \in BuiltRequests :
        Truthy(b.config.upscaleFactor) =>
            /\ b.request.upscaleConfig = b.config.upscaleFactor
            /\ b.request.mode = "upscale"
            /\ b.request.upscaleFactor = Undefined
            /\ b.request.aspectRatio = Undefined
            /\ b.request.sampleImageSize = Undefined

\* C18: a request built from a configuration with a seed (0 included)
\* carries addWatermark false, and no request carries both a seed and
\* addWatermark true.
\* (refuted: the rule tests the seed for truthiness, so a seed of 0 is
\* treated as absent; regenerateNode applies no rule)
C18_SeedDisablesWatermark ==
    \A b \in BuiltRequests :
        /\ b.config.seed # <<>> => b.request.addWatermark = <<FALSE>>
        /\ ~(b.request.seed # <<>> /\ b.request.addWatermark = <<TRUE>>)

\* The nodes that refer to group g
Members(ns, g) == {ns[k].id : k \in {j \in 1..Len(ns) : ns[j].groupId = g}}

\* C19: removeNode(n) takes n out of the node list, takes out every edge
\* whose source or target is n, leaves n a member of no group, and leaves
\* every other node, every other edge and the groups as they were.
C19_RemoveNodeCascades ==
    [][lastCall'.op = "removeNode" =>
          LET n == lastCall'.nodeId
          IN /\ n \notin Ids(nodes')
             /\ nodes' = SelectSeq(nodes, LAMBDA node : node.id # n)
             /\ \A k \in 1..Len(edges') :
                    edges'[k].source # n /\ edges'[k].target # n
             /\ edges' = SelectSeq(edges, LAMBDA e : e.source # n /\ e.target # n)
             /\ \A g \in DOMAIN groups' : n \notin Members(nodes', g)
             /\ groups' = groups]_vars

\* A grouped node with an edge was removed; another node of its group and an
\* edge between other nodes are still there
C19_Witness ==
    /\ lastCall.op = "removeNode"
    /\ lastCall.incident >= 1
    /\ lastCall.groupId = "group-1"
    /\ lastCall.nodeId \notin Ids(nodes)
    /\ Members(nodes, "group-1") # {}
    /\ Len(edges) >= 1

\* C20: every edge of the store has a source and a target that are ids of
\* nodes of the store.
\* (refuted: a removal that arrives through onNodesChange drops the node and
\* keeps its edges)
C20_EdgesReferToNodes ==
    \A k \in 1..Len(edges) :
        edges[k].source \in Ids(nodes) /\ edges[k].target \in Ids(nodes)

\* C21: a step of a regenerateNode(n) activation, however the activation
\* ends, leaves every node other than n exactly as it was.
C21_RegenerateWritesOnlyItsNode ==
    [][\A new \in Range(acts') :
          new.kind = "regenerate" /\ new \notin Range(acts) =>
              /\ Len(nodes') = Len(nodes)
              /\ \A k \in 1..Len(nodes) :
                   nodes[k].id # new.node.id => nodes'[k] = nodes[k]]_vars

\* A regeneration of the generator succeeded through a job while the other
\* nodes of the workflow kept what they held
C21_Witness ==
    \E act \in Range(acts) :
        /\ act.kind = "regenerate" /\ act.outcome = "generated" /\ act.polls >= 1
        /\ getNodeById(nodes, act.node.id).data.status = "complete"
        /\ getNodeById(nodes, "imageInput-3").data.image = "imgA"
        /\ getNodeById(nodes, "output-1").data.image = Null

\* C22: the request a regenerateNode activation sends is the request a full
\* run builds from the same generator options, images and text.
\* (refuted: regenerateNode sends the options as configured, applying none
\* of the upscale, aspectRatio, safetySetting and seed/watermark rules)
C22_RegenerateBuildsRunRequest ==
    \A act \in Range(acts) :
        act.kind = "regenerate" =>
            \A k \in 1..Len(act.requests) :
                act.requests[k].kind = "generate" =>
                    act.requests[k] =
                        Merge([kind |-> "generate", node |-> act.node.id],
                              BuildGenerateRequest(act.node.data,
                                  act.requests[k].images,
                                  act.requests[k].prompt))

C24_CreatedIdsNeverRepeat ==
    \A i, j \in 1..Len(createdIds) : i # j => createdIds[i] # createdIds[j]

IdsDistinct(ns) ==
    \A i, j \in 1..Len(ns) : i # j => ns[i].id # ns[j].id

\* C25: the node ids of the store are pairwise distinct, whatever the node
\* types, and a node created after a load never gets the id of a node the
\* load restored.
C25_StoreIdsAreDistinct ==
    [][/\ IdsDistinct(nodes) /\ IdsDistinct(nodes')
       /\ \A k \in (Len(createdIds) + 1)..Len(createdIds') :
              createdIds'[k] \notin restoredIds']_vars

\* A node was created after a load and stands in the store next to a restored
\* node of its type
C25_Witness ==
    /\ createdIds # <<>>
    /\ createdIds[Len(createdIds)] = "imageInput-6"
    /\ restoredIds = {"imageInput-2", "output-5"}
    /\ Ids(nodes) = {"imageInput-2", "output-5", "imageInput-6"}

\* C26: deleteGroup(g) removes g from the groups, clears the groupId of the
\* nodes whose groupId was g and of no other node, and leaves every other
\* node field, every other group and every edge as it was.
C26_DeleteGroupOnlyUngroups ==
    [][lastCall'.op = "deleteGroup" =>
          LET g == lastCall'.groupId
          IN /\ DOMAIN groups' = DOMAIN groups \ {g}
             /\ \A h \in DOMAIN groups' : groups'[h] = groups[h]
             /\ Len(nodes') = Len(nodes)
             /\ \A k \in 1..Len(nodes) :
                    nodes'[k] = IF nodes[k].groupId = g
                                THEN [nodes[k] EXCEPT !.groupId = Undefined]
                                ELSE nodes[k]
             /\ edges' = edges]_vars

\* group-1 was deleted: its two members are ungrouped, the member of group-2
\* and group-2 are as before, and the chain still has its nodes and edges
C26_Witness ==
    /\ lastCall.op = "deleteGroup" /\ lastCall.groupId = "group-1"
    /\ DOMAIN groups = {"group-2"}
    /\ getNodeById(nodes, "imageInput-1").groupId = Undefined
    /\ getNodeById(nodes, "annotation-2").groupId = Undefined
    /\ getNodeById(nodes, "output-3").groupId = "group-2"
    /\ Len(nodes) = 3 /\ Len(edges) = 2

\* C27: when a call that persists a generated artifact is rejected or gets
\* a failure response, the generating node keeps its status and its result
\* and the activation that generated it stays a successful one: nothing of
\* the store or of any activation changes.
C27_SaveFailureChangesNothing ==
    [][\A k \in 1..Len(saves) :
          (Len(saves') = Len(saves) /\ saves[k].state = "sent"
           /\ saves'[k].state \in {"failed", "rejected"}) =>
              /\ UNCHANGED <<nodes, edges, isRunning, currentNodeId,
                             pausedAtNodeId, globalImageHistory, acts>>
              /\ \E act \in Range(acts') :
                    act.call = saves[k].call /\ act.outcome = "generated"]_vars

\* A run's save call was rejected and its generator still shows the result
C27_Witness ==
    \E k \in 1..Len(saves) : \E act \in Range(acts) :
        /\ saves[k].state = "rejected"
        /\ act.call = saves[k].call /\ act.kind = "run"
        /\ act.outcome = "generated"
        /\ getNodeById(nodes, saves[k].node).data.status = "success"
        /\ getNodeById(nodes, saves[k].node).data.output = saves[k].url
        /\ ~isRunning

\* C28: what the user wrote with updateNodeData into a node other than the
\* executing one, while a call was suspended at an await, is in the store
\* from then on: when the call writes its results and after it returns.
\* (refuted: the annotation case decides from the node record read at the
\* head of the run whether to write outputImage)
C28_LiveEditsSurvive ==
    \A k \in 1..Len(userEdits) :
        LET edit == userEdits[k]
        IN edit.suspended /\ edit.executing # edit.nodeId =>
              \A field \in DOMAIN edit.data :
                  getNodeById(nodes, edit.nodeId).data[field] = edit.data[field]

\* C29: when every awaited request, poll and image load answers, every
\* started activation returns, and once all have returned the controller is
\* not running.
C29_ActivationsReturn ==
    (Live(acts) # <<>>) ~> (Live(acts) = <<>> /\ ~isRunning)

\* A run polled a job that never ended up to the ceiling, gave up, and left
\* the controller idle with no activation in progress
C29_Witness ==
    /\ Live(acts) = <<>> /\ ~isRunning /\ currentNodeId = Null
    /\ \E act \in Range(acts) :
          /\ act.kind = "run" /\ act.attempts = MaxPollAttempts
          /\ act.outcome = "error"

\* The program points between the sending of a generation request and the
\* writing of its result or error
Generating == {"fetch", "pollWait", "pollFetch"}

\* C30: the step of a call that sends a generator's request, and the step
\* that starts polling its job, leave the generator's status at loading; no
\* other step of the call before the result or the error is written, poll
\* iterations included, writes the node's status.
C30_GeneratingNodeStaysLoading ==
    [][\A new \in Range(acts') :
          new.pc \in Generating /\ new \notin Range(acts) =>
              LET after == getNodeById(nodes', new.node.id).data.status
                  before == getNodeById(nodes, new.node.id).data.status
                  olds == {old \in Range(acts) : old.call = new.call}
              IN /\ \A old \in olds :
                       IF old.pc \notin Generating
                          \/ (old.pc = "fetch" /\ new.pc # "fetch")
                       THEN after = "loading"
                       ELSE after = before
                 /\ olds = {} => after = "loading"]_vars

\* A run is waiting for the third poll of its job and its generator shows
\* loading
C30_Witness ==
    \E act \in Range(acts) :
        /\ act.kind = "run" /\ act.pc = "pollWait" /\ act.attempts = 2
        /\ act.polls = 2
        /\ getNodeById(nodes, act.node.id).data.status = "loading"
        /\ getNodeById(nodes, act.node.id).data.operationId # Null
        /\ isRunning

ShownImage(node) ==
    CASE node.type = "imageInput" -> node.data.image
      [] node.type = "annotation" -> node.data.outputImage
      [] node.type = "universalGenerator" ->
            OrElse(node.data.output, OrElse(node.data.image, node.data.outputImage))
      [] OTHER -> Null

\* The non-empty images of the predecessors on the image port of nodeId, in
\* the order of their edges in the store
ImagePortImages(ns, es, nodeId) ==
    LET incoming == SelectSeq(es, LAMBDA e :
                        /\ e.target = nodeId
                        /\ (e.targetHandle = "image" \/ ~Truthy(e.targetHandle))
                        /\ Truthy(ShownImage(getNodeById(ns, e.source))))
    IN [k \in 1..Len(incoming) |-> ShownImage(getNodeById(ns, incoming[k].source))]

\* The prompt of the prompt node on the text port of nodeId, or null
TextPortPrompt(ns, es, nodeId) ==
    LET incoming == SelectSeq(es, LAMBDA e :
                        /\ e.target = nodeId /\ e.targetHandle = "text"
                        /\ getNodeById(ns, e.source).type = "prompt")
    IN IF incoming = <<>> THEN Null
       ELSE getNodeById(ns, incoming[Len(incoming)].source).data.prompt

\* C32: for every node of the store, getConnectedInputs returns the non-empty
\* images of the input, annotation and generator nodes connected to its image
\* port, in the order of their edges, and the prompt of the prompt node
\* connected to its text port, or null when there is none.
\* (refuted: a generator's result written by a full run is not returned, see
\* C10)
C32_ResolvedInputsArePredecessorResults ==
    \A id \in Ids(nodes) :
        LET inputs == getConnectedInputs(nodes, edges, id)
        IN /\ inputs.images = ImagePortImages(nodes, edges, id)
           /\ inputs.text = TextPortPrompt(nodes, edges, id)

\* The fields of the node record that are not generation parameters
InternalFields ==
    {"status", "error", "output", "image", "outputImage", "inputImages",
     "inputPrompt", "resolution", "useGoogleSearch"}

\* A sanitization rule applies to key f of the configuration nodeData
Sanitized(f, nodeData) ==
    CASE f = "aspectRatio" ->
            Truthy(nodeData.upscaleFactor) \/ ~Includes(nodeData.model, "imagen")
      [] f \in {"sampleImageSize", "upscaleFactor"} -> Truthy(nodeData.upscaleFactor)
      [] f = "safetySetting" ->
            ~Includes(nodeData.model, "imagen") \/ ~Truthy(nodeData.safetySetting)
      [] f = "addWatermark" -> TruthyNumber(nodeData.seed)
      [] f = "seed" -> nodeData.addWatermark = <<TRUE>>
      [] OTHER -> FALSE

HasManualOutput(nodeId) ==
    \E k \in 1..Len(userEdits) :
        userEdits[k].nodeId = nodeId /\ "outputImage" \in DOMAIN userEdits[k].data

\* C34: when a full run returns, every annotation node it entered with a
\* resolved upstream image has that image as its sourceImage and, if the user
\* saved no drawing for it, as its outputImage as well, on every run.
\* (refuted: the image passed through by the first run counts as a drawing in
\* the second)
C34_AnnotationFollowsUpstream ==
    [][\A act \in Returned :
          act.kind = "run" =>
              \A k \in 1..Len(act.executed) :
                  LET entry == act.executed[k]
                      image == FirstOrNull(entry.images)
                      node == getNodeById(nodes', entry.id)
                  IN node.type = "annotation" /\ Truthy(image) =>
                       /\ node.data.sourceImage = image
                       /\ ~HasManualOutput(entry.id) => node.data.outputImage = image]_vars

\* C35: whenever pausedAtNodeId is not null it is the id of a node of the
\* store, after any sequence of runs, stopWorkflow, removeNode, loadWorkflow
\* and clearWorkflow.
\* (refuted: only executeWorkflow ever writes pausedAtNodeId)
C35_PausedNodeIsInStore ==
    pausedAtNodeId # Null => pausedAtNodeId \in Ids(nodes)

Terminal == {"success", "complete", "error"}

\* C37: whenever every started activation has returned, no node of the store
\* has status loading; and in the step in which an activation returns, the
\* node it was suspended in, if still in the store, has status success,
\* complete or error.
C37_NoLoadingWhenIdle ==
    /\ [](Live(acts) = <<>> =>
             \A k \in 1..Len(nodes) : nodes[k].data.status # "loading")
    /\ [][\A old \in Range(acts) : \A new \in Range(acts') :
             /\ new.call = old.call /\ new.pc = "done"
             /\ old.pc \in Generating \cup {"split", "tile"}
             /\ old.node.id \in Ids(nodes')
             => getNodeById(nodes', old.node.id).data.status \in Terminal]_vars

\* Every activation has returned, the last one a run whose generator was set
\* to loading, got a job handle and failed while the job was polled
C37_Witness ==
    /\ Live(acts) = <<>>
    /\ \E act \in Range(acts) :
          /\ act.kind = "run" /\ act.outcome = "error"
          /\ act.node.type = "universalGenerator"
          /\ act.requests # <<>> /\ act.polls > 0
          /\ getNodeById(nodes, act.node.id).data.operationId = "op1"
          /\ getNodeById(nodes, act.node.id).data.status = "error"

\* The job is done, has no error and brought neither medias nor a media url
DoneWithoutArtifact(p) ==
    /\ ~p.thrown /\ p.ok /\ p.done /\ p.error = Null
    /\ p.medias = <<>> /\ ~Truthy(p.media)

\* C38: when a poll answers that the job is done, with no error and no
\* artifact, the call polls no more and returns: the node's status is error,
\* its result fields are what they were, nothing is saved, and the controller
\* is idle.
C38_DoneWithoutArtifactIsError ==
    [][\A old \in Range(acts) : \A new \in Range(acts') :
          /\ new.call = old.call /\ old.pc = "pollFetch" /\ new # old
          /\ DoneWithoutArtifact(new.lastPoll)
          => LET before == getNodeById(nodes, old.node.id).data
                 after == getNodeById(nodes', old.node.id).data
             IN /\ new.pc = "done" /\ new.outcome = "error"
                /\ new.polls = old.polls /\ new.requests = old.requests
                /\ after.status = "error" /\ Truthy(after.error)
                /\ after.output = before.output /\ after.image = before.image
                /\ after.outputImage = before.outputImage
                /\ globalImageHistory' = globalImageHistory
                /\ saves' = saves
                /\ isRunning' = FALSE /\ currentNodeId' = Null]_vars

\* A regeneration has returned on the first poll of its job, which was done
\* without an error and without an artifact
C38_Witness ==
    \E act \in Range(acts) :
        /\ act.kind = "regenerate" /\ act.pc = "done"
        /\ DoneWithoutArtifact(act.lastPoll)
        /\ act.polls = 1 /\ act.attempts = 0
        /\ getNodeById(nodes, act.node.id).data.status = "error"
        /\ getNodeById(nodes, act.node.id).data.outputImage = Null
        /\ ~isRunning

\* C39: the groupId of every node that has one is the id of a group of the
\* store, after any sequence of createGroup, deleteGroup, addNodesToGroup,
\* removeNodesFromGroup, setNodeGroupId, copySelectedNodes, pasteNodes and
\* removeNode.
\* (refuted: the clipboard keeps the groupId of a copied node, and pasteNodes
\* brings it back after the group was deleted)
C39_GroupIdsReferToGroups ==
    \A k \in 1..Len(nodes) :
        nodes[k].groupId # Undefined => nodes[k].groupId \in DOMAIN groups

----------------------------------------------------------------------------
(* Auto-save: the interval timer of initializeAutoSave, saveToFile and the *)
(* edits the user makes while a save is on its way                         *)

\* how many times the timer fires and how many operations the user calls
MaxTicks == 2
MaxAutoSaveEdits == 3

\* what saveToFile, the timer and the project setup leave alone
graphVars == <<nodes, edges, isRunning, currentNodeId, pausedAtNodeId,
               globalImageHistory, acts, jobPending, mayFail, callsLeft,
               togglesLeft, groups, clipboard, nodeIdCounter, groupIdCounter,
               createdIds, restoredIds, userEdits, saves>>

\* setWorkflowMetadata(id, name, path, generationsPath)
setWorkflowMetadata(id, name, path) ==
    /\ editsLeft > 0
    /\ editsLeft' = editsLeft - 1
    /\ workflowId' = id
    /\ workflowName' = name
    /\ saveDirectoryPath' = path
    /\ lastCall' = NoCall
    /\ UNCHANGED <<graphVars, hasUnsavedChanges, isSaving, autoSaveEnabled,
                   fileSaves, written, ticksLeft>>

\* setAutoSaveEnabled(enabled)
setAutoSaveEnabled(enabled) ==
    /\ editsLeft > 0
    /\ editsLeft' = editsLeft - 1
    /\ autoSaveEnabled' = enabled
    /\ lastCall' = NoCall
    /\ UNCHANGED <<graphVars, hasUnsavedChanges, isSaving, workflowId,
                   workflowName, saveDirectoryPath, fileSaves, written,
                   ticksLeft>>

\* the WorkflowFile saveToFile builds from the state it read on entry
WorkflowDocument ==
    [id |-> workflowId, name |-> workflowName, nodes |-> nodes,
     edges |-> edges, groups |-> groups]

\* saveToFile up to its await fetch("/api/workflow")
SaveToFileHead ==
    /\ lastCall' = NoCall
    /\ IF workflowId = Null \/ workflowName = Null \/ saveDirectoryPath = Null
          THEN UNCHANGED <<isSaving, fileSaves>>
          ELSE /\ isSaving' = TRUE
               /\ fileSaves' = Append(fileSaves, [workflow |-> WorkflowDocument,
                                                  state |-> "pending"])
    /\ UNCHANGED <<graphVars, hasUnsavedChanges, workflowId, workflowName,
                   saveDirectoryPath, autoSaveEnabled, written>>

\* saveToFile() called by the user interface
saveToFile ==
    /\ editsLeft > 0
    /\ editsLeft' = editsLeft - 1
    /\ SaveToFileHead
    /\ UNCHANGED ticksLeft

\* The callback initializeAutoSave hands to setInterval, every 90 seconds
AutoSaveTick ==
    /\ ticksLeft > 0
    /\ ticksLeft' = ticksLeft - 1
    /\ IF /\ autoSaveEnabled /\ hasUnsavedChanges
          /\ workflowId # Null /\ workflowName # Null
          /\ saveDirectoryPath # Null /\ ~isSaving
          THEN SaveToFileHead
          ELSE UNCHANGED <<graphVars, lastCall, hasUnsavedChanges, isSaving,
                           workflowId, workflowName, saveDirectoryPath,
                           autoSaveEnabled, fileSaves, written>>
    /\ UNCHANGED editsLeft

\* saveToFile after its awaits: the answer of the k-th request has arrived,
\* with result.success or without; the server has written the document it
\* answers success for
FileSaveSettles(k, success) ==
    /\ k \in 1..Len(fileSaves)
    /\ fileSaves[k].state = "pending"
    /\ fileSaves' = [fileSaves EXCEPT ![k].state =
                        IF success THEN "written" ELSE "failed"]
    /\ isSaving' = FALSE
    /\ IF success
          THEN /\ written' = [isNull |-> FALSE,
                              nodes |-> fileSaves[k].workflow.nodes,
                              edges |-> fileSaves[k].workflow.edges]
               /\ hasUnsavedChanges' = FALSE
          ELSE UNCHANGED <<written, hasUnsavedChanges>>
    /\ UNCHANGED <<graphVars, lastCall, workflowId, workflowName,
                   saveDirectoryPath, autoSaveEnabled, ticksLeft, editsLeft>>

\* The user has built the pass-through workflow and not yet set up a project
InitAutoSave ==
    /\ nodes = PassThroughWorkflow.nodes /\ edges = PassThroughWorkflow.edges
    /\ groups = NoGroups /\ clipboard = NoClipboard
    /\ nodeIdCounter = Len(nodes) /\ groupIdCounter = 0
    /\ createdIds = [k \in 1..Len(nodes) |-> nodes[k].id]
    /\ restoredIds = {}
    /\ isRunning = FALSE /\ currentNodeId = Null /\ pausedAtNodeId = Null
    /\ globalImageHistory = <<>> /\ acts = <<>> /\ lastCall = NoCall
    /\ saves = <<>> /\ userEdits = <<>>
    /\ hasUnsavedChanges = TRUE /\ isSaving = FALSE /\ workflowId = Null
    /\ workflowName = Null /\ saveDirectoryPath = Null /\ autoSaveEnabled = TRUE
    /\ fileSaves = <<>> /\ written = NoDocument /\ ticksLeft = MaxTicks
    /\ jobPending = 0 /\ mayFail = FALSE /\ callsLeft = 0 /\ togglesLeft = 0
    /\ editsLeft = MaxAutoSaveEdits

NextAutoSave ==
    \/ setWorkflowMetadata("wf-1", "untitled", "/projects")
    \/ \E enabled \in BOOLEAN : setAutoSaveEnabled(enabled)
    \/ saveToFile
    \/ AutoSaveTick
    \/ \E k \in 1..Len(fileSaves) : \E success \in BOOLEAN :
          FileSaveSettles(k, success)
    \/ \E image \in UploadedImages :
          UserUpdateNodeData("imageInput-1", [image |-> image])
    \/ \E n \in Ids(nodes) : removeNode(n)

SpecAutoSave == InitAutoSave /\ [][NextAutoSave]_vars

\* C40: whenever hasUnsavedChanges is false after a saveToFile has completed,
\* the workflow document last written holds the nodes and edges of the store;
\* an edit made while a save is on its way leaves hasUnsavedChanges true when
\* that save completes.
\* (refuted: the save clears the flag when its answer arrives, whatever was
\* edited since it read the store)
C40_SavedMeansWritten ==
    ~hasUnsavedChanges =>
        /\ ~written.isNull
        /\ written.nodes = nodes
        /\ written.edges = edges

====
